---- MODULE Spec2Model ----
(***************************************************************************)
(* A model of the markdown-to-structured-JSON converter of MarkdownParser:  *)
(* parseMarkdownToStructuredJson and countWords of shared/parser.ts, and    *)
(* the route-level parseMarkdownToStructuredJson of server/routes.ts.       *)
(*                                                                         *)
(* A string is a sequence of one-character strings.  Positions in the      *)
(* string operators are 1-based (TLA+ sequences); the line cursor i of the *)
(* block loop is 0-based, as in the source.                                 *)
(***************************************************************************)
EXTENDS Integers, Sequences, FiniteSets, TLC

(***************************************************************************)
(* Bounds of the generated inputs.                                         *)
(***************************************************************************)
MaxLen == 4
MaxLines == 3
MaxFmLines == 2
MaxLinkLines == 2
SmallWords == 20
MaxMinutes == 2
MaxFixLines == 2

(***************************************************************************)
(* Character classes of the regular expressions.                           *)
(***************************************************************************)
LowerLetters == <<"a","b","c","d","e","f","g","h","i","j","k","l","m",
                  "n","o","p","q","r","s","t","u","v","w","x","y","z">>
UpperLetters == <<"A","B","C","D","E","F","G","H","I","J","K","L","M",
                  "N","O","P","Q","R","S","T","U","V","W","X","Y","Z">>
Range(f) == {f[k] : k \in DOMAIN f}
Digits == {"0","1","2","3","4","5","6","7","8","9"}
\* \s of a regular expression and the characters trim() removes
Space == {" ", "\t", "\n", "\r"}
\* \w
WordChars == Range(LowerLetters) \cup Range(UpperLetters) \cup Digits \cup {"_"}
\* [A-Za-z0-9_-]
TagChars == WordChars \cup {"-"}
\* . of a regular expression (no line terminator)
IsDot(c) == c \notin {"\n", "\r"}

Min(S) == CHOOSE x \in S : \A y \in S : x <= y
Max(S) == CHOOSE x \in S : \A y \in S : x >= y

(***************************************************************************)
(* String primitives: String.prototype.slice / startsWith / indexOf /      *)
(* trim / toLowerCase / split / join.                                       *)
(***************************************************************************)
\* s.slice(from - 1, to): the characters at the 1-based positions from..to
Slice(s, from, to) == IF from > to THEN <<>> ELSE SubSeq(s, from, to)

\* s.startsWith(pat, p - 1)
MatchesAt(s, pat, p) ==
    /\ p >= 1
    /\ p + Len(pat) - 1 <= Len(s)
    /\ \A k \in 1..Len(pat) : s[p + k - 1] = pat[k]

StartsWith(s, pat) == MatchesAt(s, pat, 1)

\* s.indexOf(pat, p - 1) + 1: the first position >= p where pat occurs, 0 if none
IndexOf(s, pat, p) ==
    LET hits == {q \in p..(Len(s) - Len(pat) + 1) : MatchesAt(s, pat, q)}
    IN  IF hits = {} THEN 0 ELSE Min(hits)

\* the first position >= p whose character is not in set S (Len(s) + 1 if none)
RunEnd(s, p, S) ==
    Min({q \in p..(Len(s) + 1) : q = Len(s) + 1 \/ s[q] \notin S})

\* the first position >= p whose character is in set S (0 if none)
FirstIn(s, p, S) ==
    LET hits == {q \in p..Len(s) : s[q] \in S}
    IN  IF hits = {} THEN 0 ELSE Min(hits)

TrimStart(s) == Slice(s, RunEnd(s, 1, Space), Len(s))

TrimEnd(s) ==
    LET keep == {q \in 1..Len(s) : s[q] \notin Space}
    IN  IF keep = {} THEN <<>> ELSE Slice(s, 1, Max(keep))

Trim(s) == TrimEnd(TrimStart(s))

LowerChar(c) ==
    IF c \in Range(UpperLetters)
    THEN LowerLetters[CHOOSE k \in 1..26 : UpperLetters[k] = c]
    ELSE c

ToLowerCase(s) == [k \in 1..Len(s) |-> LowerChar(s[k])]

\* s.split(sep) for a one-character separator: never empty, keeps empty pieces
RECURSIVE SplitChar(_, _)
SplitChar(s, sep) ==
    LET q == FirstIn(s, 1, {sep})
    IN  IF q = 0 THEN <<s>>
        ELSE <<Slice(s, 1, q - 1)>> \o SplitChar(Slice(s, q + 1, Len(s)), sep)

\* the scan of a /g regex over the positions lo..hi, by halves: acc holds the
\* matches found before lo and the position at which the search resumes
RECURSIVE MatchesIn(_, _, _, _)
MatchesIn(ends, lo, hi, acc) ==
    IF lo > hi THEN acc
    ELSE IF lo = hi
    THEN IF lo >= acc.next /\ ends[lo] # 0
         THEN [matches |-> Append(acc.matches, [start |-> lo, end |-> ends[lo]]),
               next    |-> ends[lo]]
         ELSE acc
    ELSE LET left == MatchesIn(ends, lo, (lo + hi) \div 2, acc)
         IN  IF left.next >= 1
             THEN MatchesIn(ends, (lo + hi) \div 2 + 1, hi, left)
             ELSE left

\* the matches, leftmost first, each search resuming after the last match;
\* ends[q] is the position after the match that starts at q, or 0
MatchesOf(s, ends) ==
    MatchesIn(ends, 1, Len(s), [matches |-> <<>>, next |-> 1]).matches

\* s.split(/[S]+/): the separators are the maximal runs of characters of S,
\* given as the matches seps; the pieces are the texts around them
PiecesAround(s, seps) ==
    [k \in 1..(Len(seps) + 1) |->
        Slice(s, IF k = 1 THEN 1 ELSE seps[k - 1].end,
                 IF k > Len(seps) THEN Len(s) ELSE seps[k].start - 1)]

SplitRuns(s, S) ==
    PiecesAround(s, MatchesOf(s, [q \in 1..Len(s) |->
                                     IF s[q] \in S THEN RunEnd(s, q, S) ELSE 0]))

\* pieces.join(sep)
RECURSIVE Join(_, _)
Join(pieces, sep) ==
    IF pieces = <<>> THEN <<>>
    ELSE IF Len(pieces) = 1 THEN pieces[1]
    ELSE pieces[1] \o sep \o Join(Tail(pieces), sep)

\* a slip: the array kept as it is, without new Set
KeepAll(xs) == xs

\* Array.from(new Set(xs)): first occurrences, in order
Dedup(xs) ==
    LET keep == {k \in 1..Len(xs) : \A j \in 1..(k - 1) : xs[j] # xs[k]}
        F[k \in 0..Len(xs)] ==
            IF k = 0 THEN <<>>
            ELSE IF k \in keep THEN Append(F[k - 1], xs[k]) ELSE F[k - 1]
    IN  F[Len(xs)]

\* xs.filter(Boolean) on an array of strings: the non-empty ones
RECURSIVE NonEmpty(_)
NonEmpty(xs) ==
    IF xs = <<>> THEN <<>>
    ELSE IF xs[1] = <<>> THEN NonEmpty(Tail(xs))
    ELSE <<xs[1]>> \o NonEmpty(Tail(xs))

(***************************************************************************)
(* Dates.  A Date is modelled by its toISOString() text; the clock value   *)
(* new Date() is the one-token text Now, and an Invalid Date is Invalid.   *)
(* The generated inputs give new Date(value) either a date-only ISO text   *)
(* (YYYY-MM-DD, parsed as UTC midnight) or a text without any digit        *)
(* (an Invalid Date).                                                      *)
(***************************************************************************)
Now == <<"<now>">>
Invalid == <<"<invalid>">>
Absent == <<"<absent>">>

TwoDigits(s, p) ==
    (CHOOSE d \in 0..9 : s[p] = <<"0","1","2","3","4","5","6","7","8","9">>[d + 1]) * 10
     + (CHOOSE d \in 0..9 : s[p + 1] = <<"0","1","2","3","4","5","6","7","8","9">>[d + 1])

IsIsoDate(v) ==
    /\ Len(v) = 10
    /\ \A k \in {1, 2, 3, 4, 6, 7, 9, 10} : v[k] \in Digits
    /\ v[5] = "-" /\ v[8] = "-"
    /\ TwoDigits(v, 6) \in 1..12
    /\ TwoDigits(v, 9) \in 1..28

\* new Date(value), then toISOString() of a valid one
ParseDate(v) ==
    IF IsIsoDate(v)
    THEN v \o <<"T","0","0",":","0","0",":","0","0",".","0","0","0","Z">>
    ELSE Invalid

(***************************************************************************)
(* shared/parser.ts, parseMarkdownToStructuredJson: the frontmatter.       *)
(***************************************************************************)
Dashes == <<"-", "-", "-">>
\* the backtick, which a TLA+ string cannot hold
Tick == "BACKTICK"
Ticks == <<Tick, Tick, Tick>>
NL == <<"\n">>

\* markdown.match(/^---\n([\s\S]*?)\n---/): the opening "---\n" at the start of
\* the text and the first later "\n---"; close is the position of that "\n"
FmClose(markdown) ==
    IF StartsWith(markdown, Dashes \o NL)
    THEN IndexOf(markdown, NL \o Dashes, 5)
    ELSE 0

FmSlice(markdown, close) == Slice(markdown, 5, close - 1)

FmMatchAt(markdown, close) ==
    [found |-> close # 0,
     fm    |-> IF close = 0 THEN <<>> ELSE FmSlice(markdown, close),
     \* fmMatch[0].length
     len   |-> IF close = 0 THEN 0 ELSE close + 3]

FmMatch(markdown) == FmMatchAt(markdown, FmClose(markdown))

\* markdown.slice(fmMatch[0].length).trimStart()
BodyAfter(markdown, m) ==
    IF m.found THEN TrimStart(Slice(markdown, m.len + 1, Len(markdown)))
    ELSE markdown

\* t.replace(/^["'\-\s]+|["'\s]+$/g, '')
StripTag(t) ==
    LET lead  == {"\"", "'", "-"} \cup Space
        trail == {"\"", "'"} \cup Space
        a     == RunEnd(t, 1, lead)
        keep  == {q \in a..Len(t) : t[q] \notin trail}
    IN  IF keep = {} THEN <<>> ELSE Slice(t, a, Max(keep))

StripTags(ts) == [k \in 1..Len(ts) |-> StripTag(ts[k])]

\* a slip: the brackets of a list value kept
TagListRaw(value) == NonEmpty(StripTags(SplitRuns(value, {","} \cup Space)))

\* the tags of a frontmatter value: lines 104-118
TagList(value) ==
    LET inner == IF StartsWith(value, <<"[">>) /\ value[Len(value)] = "]"
                 THEN Slice(value, 2, Len(value) - 1)
                 ELSE value
    IN  NonEmpty(StripTags(SplitRuns(inner, {","} \cup Space)))

CreatedKeys == {<<"c","r","e","a","t","e","d">>,
                <<"c","r","e","a","t","e","d","_","a","t">>}
UpdatedKeys == {<<"u","p","d","a","t","e","d">>,
                <<"u","p","d","a","t","e","d","_","a","t">>}
TagsKey == <<"t","a","g","s">>

\* one pass of the loop over fmLines (lines 98-127); acc is the record of the
\* accumulators tags, createdAt, updatedAt
FmLine(acc, line) ==
    LET colon  == FirstIn(line, 1, {":"})
        rawKey == Slice(line, 1, colon - 1)
        key    == ToLowerCase(Trim(rawKey))
        value  == Trim(Slice(line, colon + 1, Len(line)))
        d      == ParseDate(value)
    IN  IF colon = 0 \/ rawKey = <<>> THEN acc
        ELSE IF key = TagsKey
             THEN [acc EXCEPT !.tags = @ \o TagList(value)]
        ELSE IF key \in CreatedKeys
             THEN IF d # Invalid THEN [acc EXCEPT !.createdAt = d] ELSE acc
        ELSE IF key \in UpdatedKeys
             THEN IF d # Invalid THEN [acc EXCEPT !.updatedAt = d] ELSE acc
        ELSE acc

RECURSIVE FmFold(_, _)
FmFold(acc, fmLines) ==
    IF fmLines = <<>> THEN acc
    ELSE FmFold(FmLine(acc, fmLines[1]), Tail(fmLines))

\* lines 90-129: the accumulators after the frontmatter block
FrontmatterOf(m, acc0) ==
    IF m.found THEN FmFold(acc0, SplitRuns(m.fm, {"\n"})) ELSE acc0

Frontmatter(markdown) ==
    FrontmatterOf(FmMatch(markdown), [tags |-> <<>>, createdAt |-> Now, updatedAt |-> Now])

(***************************************************************************)
(* shared/parser.ts: the hashtag and wikilink scans of the body.           *)
(***************************************************************************)
\* one exec of /(^|\s)#([A-Za-z0-9_-]+)/g from lastIndex p - 1: the match
\* starts at q, where the "#" is at q (q = 1) or at q + 1 (after a space)
TagHashAt(s, q) ==
    IF q = 1 /\ MatchesAt(s, <<"#">>, 1) /\ RunEnd(s, 2, TagChars) > 2 THEN 1
    ELSE IF q <= Len(s) /\ s[q] \in Space /\ MatchesAt(s, <<"#">>, q + 1)
            /\ RunEnd(s, q + 2, TagChars) > q + 2 THEN q + 1
    ELSE 0

RECURSIVE ScanTags(_, _)
ScanTags(s, p) ==
    LET hits == {q \in p..Len(s) : TagHashAt(s, q) # 0}
        h    == TagHashAt(s, Min(hits))
        e    == RunEnd(s, h + 1, TagChars)
    IN  IF hits = {} THEN <<>>
        ELSE <<Slice(s, h + 1, e - 1)>> \o ScanTags(s, e)

\* one exec of /\[\[([^\]]+)\]\]/g: "[[" at q, the first "]" at least one
\* character later, and another "]" right after it; the position of that "]"
WikiCloseAt(s, q) ==
    LET c == FirstIn(s, q + 2, {"]"})
    IN  IF MatchesAt(s, <<"[", "[">>, q) /\ c > q + 2 /\ MatchesAt(s, <<"]">>, c + 1)
        THEN c ELSE 0

RECURSIVE ScanWikilinks(_, _)
ScanWikilinks(s, p) ==
    LET hits == {q \in p..Len(s) : WikiCloseAt(s, q) # 0}
        q0   == Min(hits)
        c    == WikiCloseAt(s, q0)
    IN  IF hits = {} THEN <<>>
        ELSE <<Trim(Slice(s, q0 + 2, c - 1))>> \o ScanWikilinks(s, c + 2)

(***************************************************************************)
(* The regular expressions of parseInlineElements (shared/parser.ts).      *)
(* XEndAt(s, q) is the position after the match of expression X that       *)
(* starts at position q of s, 0 when X does not match there.               *)
(***************************************************************************)
AllDot(s, from, to) == \A k \in from..to : IsDot(s[k])

\* /\*\*(.*?)\*\*/g
StrongEndAt(s, q) ==
    LET c == IndexOf(s, <<"*", "*">>, q + 2)
    IN  IF MatchesAt(s, <<"*", "*">>, q) /\ c # 0 /\ AllDot(s, q + 2, c - 1)
        THEN c + 2 ELSE 0

\* /\*(.*?)\*/g
EmEndAt(s, q) ==
    LET c == FirstIn(s, q + 1, {"*"})
    IN  IF MatchesAt(s, <<"*">>, q) /\ c # 0 /\ AllDot(s, q + 1, c - 1)
        THEN c + 1 ELSE 0

\* /\[([^\]]+)\]\(([^)]+)\)/g: the positions of "]" and ")" of a link at q
LinkClose(s, q) ==
    LET c == FirstIn(s, q + 1, {"]"})
        d == FirstIn(s, c + 2, {")"})
    IN  IF MatchesAt(s, <<"[">>, q) /\ c > q + 1 /\ MatchesAt(s, <<"(">>, c + 1)
           /\ d > c + 2
        THEN <<c, d>> ELSE <<0, 0>>

LinkEndAt(s, q) == IF LinkClose(s, q)[2] = 0 THEN 0 ELSE LinkClose(s, q)[2] + 1

\* /`([^`]+)`/g
CodeEndAt(s, q) ==
    LET c == FirstIn(s, q + 1, {Tick})
    IN  IF MatchesAt(s, <<Tick>>, q) /\ c > q + 1 THEN c + 1 ELSE 0

(***************************************************************************)
(* The regular expressions of countWords (shared/parser.ts; server/routes.ts *)
(* holds the same function).                                               *)
(***************************************************************************)
\* ^ under the m flag
IsLineStart(s, q) == q = 1 \/ s[q - 1] \in {"\n", "\r"}

\* /```[\s\S]*?```/g
FencedEndAt(s, q) ==
    LET c == IndexOf(s, Ticks, q + 3)
    IN  IF MatchesAt(s, Ticks, q) /\ c # 0 THEN c + 3 ELSE 0

\* /`[^`]*`/g
InlineCodeEndAt(s, q) ==
    LET c == FirstIn(s, q + 1, {Tick})
    IN  IF MatchesAt(s, <<Tick>>, q) /\ c # 0 THEN c + 1 ELSE 0

\* /\[([^\]]+)\]\([^)]*\)/g: the positions of "]" and ")" of a link at q
WordLinkClose(s, q) ==
    LET c == FirstIn(s, q + 1, {"]"})
        d == FirstIn(s, c + 2, {")"})
    IN  IF MatchesAt(s, <<"[">>, q) /\ c > q + 1 /\ MatchesAt(s, <<"(">>, c + 1)
           /\ d # 0
        THEN <<c, d>> ELSE <<0, 0>>

WordLinkEndAt(s, q) ==
    IF WordLinkClose(s, q)[2] = 0 THEN 0 ELSE WordLinkClose(s, q)[2] + 1

\* a slip: "$&", the whole link kept
WordLinkWhole(s, start, end) == Slice(s, start, end - 1)

\* "$1"
WordLinkText(s, start, end) == Slice(s, start + 1, WordLinkClose(s, start)[1] - 1)

\* /!\[[^\]]*\]\([^)]*\)/g
ImageEndAt(s, q) ==
    LET c == FirstIn(s, q + 2, {"]"})
        d == FirstIn(s, c + 2, {")"})
    IN  IF MatchesAt(s, <<"!", "[">>, q) /\ c # 0 /\ MatchesAt(s, <<"(">>, c + 1)
           /\ d # 0
        THEN d + 1 ELSE 0

\* /^\s*>\s?/gm
QuoteMarkEndAt(s, q) ==
    LET g == RunEnd(s, q, Space)
    IN  IF IsLineStart(s, q) /\ MatchesAt(s, <<">">>, g)
        THEN IF g + 1 <= Len(s) /\ s[g + 1] \in Space THEN g + 2 ELSE g + 1
        ELSE 0

\* /^\s{0,3}#{1,6}\s+/gm
HeadingMarkEndAt(s, q) ==
    LET g == RunEnd(s, q, Space)
        h == RunEnd(s, g, {"#"})
        w == RunEnd(s, h, Space)
    IN  IF IsLineStart(s, q) /\ g - q <= 3 /\ h - g >= 1 /\ h - g <= 6 /\ w > h
        THEN w ELSE 0

\* /^\s*[-*+]\s+/gm
BulletMarkEndAt(s, q) ==
    LET g == RunEnd(s, q, Space)
        w == RunEnd(s, g + 1, Space)
    IN  IF IsLineStart(s, q) /\ g <= Len(s) /\ s[g] \in {"-", "*", "+"} /\ w > g + 1
        THEN w ELSE 0

\* /^\s*\d+\.\s+/gm
NumberMarkEndAt(s, q) ==
    LET g == RunEnd(s, q, Space)
        d == RunEnd(s, g, Digits)
        w == RunEnd(s, d + 1, Space)
    IN  IF IsLineStart(s, q) /\ d > g /\ MatchesAt(s, <<".">>, d) /\ w > d + 1
        THEN w ELSE 0

\* /<[^>]+>/g
HtmlTagEndAt(s, q) ==
    LET c == FirstIn(s, q + 1, {">"})
    IN  IF MatchesAt(s, <<"<">>, q) /\ c > q + 1 THEN c + 1 ELSE 0

\* /[\n\r\t]+/g
BreakRunEndAt(s, q) ==
    IF q <= Len(s) /\ s[q] \in {"\n", "\r", "\t"}
    THEN RunEnd(s, q, {"\n", "\r", "\t"}) ELSE 0

\* /\s+/g
SpaceRunEndAt(s, q) ==
    IF q <= Len(s) /\ s[q] \in Space THEN RunEnd(s, q, Space) ELSE 0

(***************************************************************************)
(* The regular expression of parseInlineElements of server/routes.ts.      *)
(***************************************************************************)
\* /(\[\[[^\]]+\]\]|\[([^\]]+)\]\(([^)]+)\))/g
RouteInlineEndAt(s, q) ==
    IF WikiCloseAt(s, q) # 0 THEN WikiCloseAt(s, q) + 2 ELSE LinkEndAt(s, q)

(***************************************************************************)
(* Global regular expressions: exec in a loop, String.prototype.replace.   *)
(* RegexEndAt(re, s, q) is the position after the match of expression re   *)
(* that starts at position q of s, 0 when re does not match there.  No     *)
(* expression of the program matches the empty string.                     *)
(***************************************************************************)
RegexEndAt(re, s, q) ==
    CASE re = "strong"      -> StrongEndAt(s, q)
      [] re = "em"          -> EmEndAt(s, q)
      [] re = "link"        -> LinkEndAt(s, q)
      [] re = "code"        -> CodeEndAt(s, q)
      [] re = "fenced"      -> FencedEndAt(s, q)
      [] re = "inlineCode"  -> InlineCodeEndAt(s, q)
      [] re = "image"       -> ImageEndAt(s, q)
      [] re = "wordLink"    -> WordLinkEndAt(s, q)
      [] re = "quoteMark"   -> QuoteMarkEndAt(s, q)
      [] re = "headingMark" -> HeadingMarkEndAt(s, q)
      [] re = "bulletMark"  -> BulletMarkEndAt(s, q)
      [] re = "numberMark"  -> NumberMarkEndAt(s, q)
      [] re = "htmlTag"     -> HtmlTagEndAt(s, q)
      [] re = "breakRun"    -> BreakRunEndAt(s, q)
      [] re = "spaceRun"    -> SpaceRunEndAt(s, q)
      [] re = "routeInline" -> RouteInlineEndAt(s, q)

AllMatches(s, re) == MatchesOf(s, [q \in 1..Len(s) |-> RegexEndAt(re, s, q)])

\* the second argument of s.replace(re, ...) for the match start..end - 1:
\* " ", "" or "$1"
Replacement(re, s, start, end) ==
    CASE re \in {"fenced", "inlineCode", "image", "htmlTag", "breakRun", "spaceRun"}
              -> <<" ">>
      [] re \in {"quoteMark", "headingMark", "bulletMark", "numberMark"} -> <<>>
      [] re = "wordLink" -> WordLinkText(s, start, end)

\* the concatenation of pieces[lo], ..., pieces[hi], by halves
RECURSIVE Flatten(_, _, _)
Flatten(pieces, lo, hi) ==
    IF lo > hi THEN <<>>
    ELSE IF lo = hi THEN pieces[lo]
    ELSE Flatten(pieces, lo, (lo + hi) \div 2)
             \o Flatten(pieces, (lo + hi) \div 2 + 1, hi)

\* s.replace(re, ...): each match replaced by its replacement
ReplaceMatches(s, re, ms) ==
    Flatten([k \in 1..Len(ms) |->
                Slice(s, IF k = 1 THEN 1 ELSE ms[k - 1].end, ms[k].start - 1)
                    \o Replacement(re, s, ms[k].start, ms[k].end)], 1, Len(ms))
        \o Slice(s, IF ms = <<>> THEN 1 ELSE ms[Len(ms)].end, Len(s))

ReplaceAll(s, re) == ReplaceMatches(s, re, AllMatches(s, re))

(***************************************************************************)
(* shared/parser.ts, parseInlineElements.                                  *)
(***************************************************************************)
\* text.replace(/<[^>]*>/g, '')
RECURSIVE StripHtml(_)
StripHtml(s) ==
    LET hits == {q \in 1..Len(s) : s[q] = "<" /\ FirstIn(s, q + 1, {">"}) # 0}
        q0   == Min(hits)
    IN  IF hits = {} THEN s
        ELSE Slice(s, 1, q0 - 1)
               \o StripHtml(Slice(s, FirstIn(s, q0 + 1, {">"}) + 1, Len(s)))

\* lines 43-60: the matches array before the sort
InlineMatches(text) ==
    LET strong == AllMatches(text, "strong")
        em     == AllMatches(text, "em")
        link   == AllMatches(text, "link")
        code   == AllMatches(text, "code")
        inStrong(q) == \E k \in 1..Len(strong) :
                           q >= strong[k].start /\ q < strong[k].end
    IN  [k \in 1..Len(strong) |->
            [type |-> "strong", start |-> strong[k].start, end |-> strong[k].end,
             content |-> Slice(text, strong[k].start + 2, strong[k].end - 3),
             url |-> <<>>]]
        \o SelectSeq([k \in 1..Len(em) |->
            [type |-> "emphasis", start |-> em[k].start, end |-> em[k].end,
             content |-> Slice(text, em[k].start + 1, em[k].end - 2),
             url |-> <<>>]], LAMBDA m : ~inStrong(m.start))
        \o [k \in 1..Len(link) |->
            [type |-> "link", start |-> link[k].start, end |-> link[k].end,
             content |-> Slice(text, link[k].start + 1, LinkClose(text, link[k].start)[1] - 1),
             url |-> Slice(text, LinkClose(text, link[k].start)[1] + 2, link[k].end - 2)]]
        \o [k \in 1..Len(code) |->
            [type |-> "code", start |-> code[k].start, end |-> code[k].end,
             content |-> Slice(text, code[k].start + 1, code[k].end - 2),
             url |-> <<>>]]

\* matches.sort((a, b) => a.start - b.start): a stable sort
SortByStart(ms) ==
    LET before(a, b) == ms[a].start < ms[b].start \/ (ms[a].start = ms[b].start /\ a < b)
        rank(a) == Cardinality({b \in 1..Len(ms) : before(b, a)}) + 1
    IN  [r \in 1..Len(ms) |-> ms[CHOOSE a \in 1..Len(ms) : rank(a) = r]]

InlineSpan(m) ==
    IF m.type = "link" THEN [type |-> "link", content |-> m.content, url |-> m.url]
    ELSE [type |-> m.type, content |-> m.content]

TextSpan(t) == [type |-> "text", content |-> t]

\* lines 62-75: the walk over the sorted matches; last is lastIndex + 1
InlineWalk(text, ms) ==
    LET F[k \in 0..Len(ms)] ==
            IF k = 0 THEN [elements |-> <<>>, last |-> 1]
            ELSE LET prev == F[k - 1]
                     gap  == Slice(text, prev.last, ms[k].start - 1)
                 IN  [elements |->
                          (IF ms[k].start > prev.last /\ Trim(gap) # <<>>
                           THEN Append(prev.elements, TextSpan(gap))
                           ELSE prev.elements) \o <<InlineSpan(ms[k])>>,
                      last |-> ms[k].end]
    IN  F[Len(ms)]

\* lines 76-81: the text after the last match; w is the result of the walk
InlineTail(text, w) ==
    IF w.last <= Len(text) /\ Trim(Slice(text, w.last, Len(text))) # <<>>
    THEN Append(w.elements, TextSpan(Slice(text, w.last, Len(text))))
    ELSE w.elements

\* lines 82-85
InlineResult(text, elements) ==
    IF elements = <<>> /\ Trim(text) # <<>>
    THEN <<TextSpan(StripHtml(text))>>
    ELSE elements

\* parseInlineElements(text)
ParseInlineElements(text) ==
    InlineResult(text, InlineTail(text, InlineWalk(text, SortByStart(InlineMatches(text)))))

(***************************************************************************)
(* shared/parser.ts: the branches of the block loop.  line is a trimmed    *)
(* line; lines is the array of the body's lines and i the 0-based cursor.  *)
(***************************************************************************)
\* a slip: /^(#+)\s+(.+)$/, a run of any length
HeaderLevelAnyRun(line) ==
    LET h == RunEnd(line, 1, {"#"}) - 1
        w == RunEnd(line, h + 1, Space)
    IN  IF h >= 1 /\ w > h + 1 /\ w <= Len(line) /\ AllDot(line, w, Len(line))
        THEN h ELSE 0

\* line.match(/^(#{1,6})\s+(.+)$/): the heading level, 0 when no match
HeaderLevel(line) ==
    LET h == RunEnd(line, 1, {"#"}) - 1
        w == RunEnd(line, h + 1, Space)
    IN  IF h >= 1 /\ h <= 6 /\ w > h + 1 /\ w <= Len(line) /\ AllDot(line, w, Len(line))
        THEN h ELSE 0

\* a slip: the text taken one character after the marker, line.slice(level + 1)
HeaderTextAfterOneSpace(line) ==
    Slice(line, RunEnd(line, 1, {"#"}) + 1, Len(line))

\* headerMatch[2]
HeaderText(line) ==
    Slice(line, RunEnd(line, RunEnd(line, 1, {"#"}), Space), Len(line))

\* langMatch?.[1] || 'text'
FenceLanguage(line) ==
    LET e == RunEnd(line, 4, WordChars)
    IN  IF e > 4 THEN Slice(line, 4, e - 1) ELSE <<"t", "e", "x", "t">>

IsFence(line) == StartsWith(Trim(line), Ticks)

\* a slip: a blank line ends the capture as well
FenceEndAtBlank(lines, i) ==
    Min({j \in (i + 1)..Len(lines) :
            j = Len(lines) \/ IsFence(lines[j + 1]) \/ Trim(lines[j + 1]) = <<>>})

\* lines 162-166: the cursor after the inner loop of a fence opened at i
FenceEnd(lines, i) ==
    Min({j \in (i + 1)..Len(lines) : j = Len(lines) \/ IsFence(lines[j + 1])})

\* line.match(/^[-*_]{3,}$/)
IsRule(line) == Len(line) >= 3 /\ \A k \in 1..Len(line) : line[k] \in {"-", "*", "_"}

\* a slip: "-" the only marker, /^[\s]*-\s+(.+)$/
UnorderedDashItem(line) ==
    LET m == RunEnd(line, 1, Space)
        w == RunEnd(line, m + 1, Space)
    IN  IF m <= Len(line) /\ line[m] = "-" /\ w > m + 1
           /\ w <= Len(line) /\ AllDot(line, w, Len(line))
        THEN Slice(line, w, Len(line)) ELSE <<>>

\* the item text of line.match(/^[\s]*[-*+]\s+(.+)$/), <<>> when no match
UnorderedItem(line) ==
    LET m == RunEnd(line, 1, Space)
        w == RunEnd(line, m + 1, Space)
    IN  IF m <= Len(line) /\ line[m] \in {"-", "*", "+"} /\ w > m + 1
           /\ w <= Len(line) /\ AllDot(line, w, Len(line))
        THEN Slice(line, w, Len(line)) ELSE <<>>

\* the item text of line.match(/^[\s]*\d+\.\s+(.+)$/), <<>> when no match
OrderedItem(line) ==
    LET m == RunEnd(line, 1, Space)
        d == RunEnd(line, m, Digits)
        w == RunEnd(line, d + 1, Space)
    IN  IF d > m /\ MatchesAt(line, <<".">>, d) /\ w > d + 1
           /\ w <= Len(line) /\ AllDot(line, w, Len(line))
        THEN Slice(line, w, Len(line)) ELSE <<>>

\* a slip: the inner loop accepts an item of either kind
ListItemAny(line, ordered) ==
    IF UnorderedItem(line) # <<>> THEN UnorderedItem(line) ELSE OrderedItem(line)

ListItem(line, ordered) == IF ordered THEN OrderedItem(line) ELSE UnorderedItem(line)

\* a slip: a blank line ends the run
RECURSIVE ListRunStopAtBlank(_, _, _)
ListRunStopAtBlank(lines, j, ordered) ==
    IF j >= Len(lines) THEN [items |-> <<>>, next |-> j]
    ELSE LET item == ListItem(Trim(lines[j + 1]), ordered)
             rest == ListRunStopAtBlank(lines, j + 1, ordered)
         IN  IF item # <<>>
             THEN [items |-> <<[type |-> "list_item", content |-> item]>> \o rest.items,
                   next  |-> rest.next]
             ELSE [items |-> <<>>, next |-> j]

\* lines 188-199 and 207-218: the inner loop of a list, from cursor j
RECURSIVE ListRun(_, _, _)
ListRun(lines, j, ordered) ==
    IF j >= Len(lines) THEN [items |-> <<>>, next |-> j]
    ELSE LET currentLine == Trim(lines[j + 1])
             item        == ListItem(currentLine, ordered)
             rest        == ListRun(lines, j + 1, ordered)
         IN  IF item # <<>>
             THEN [items |-> <<[type |-> "list_item", content |-> item]>> \o rest.items,
                   next  |-> rest.next]
             ELSE IF currentLine = <<>> THEN rest
             ELSE [items |-> <<>>, next |-> j]

\* lines 224-228
ParagraphOf(children) ==
    IF Len(children) = 1 /\ children[1].type = "text"
    THEN [type |-> "paragraph", content |-> children[1].content]
    ELSE [type |-> "paragraph", children |-> children]

\* lines 223-228
Paragraph(line) == ParagraphOf(ParseInlineElements(line))

\* a slip: the i++ before continue forgotten
HeadingPassNoAdvance(line, level, i) ==
    [blocks |-> <<[type |-> "heading", level |-> level, content |-> HeaderText(line)]>>,
     next   |-> i]

\* lines 153-155
HeadingPass(line, level, i) ==
    [blocks |-> <<[type |-> "heading", level |-> level, content |-> HeaderText(line)]>>,
     next   |-> i + 1]

\* a slip: codeLines.push(lines[i].trim())
FencePassTrimmed(lines, line, i, end) ==
    [blocks |-> <<[type |-> "code_block", language |-> FenceLanguage(line),
                   content |-> Join([k \in 1..(end - i - 1) |-> Trim(lines[i + 1 + k])], NL)]>>,
     next   |-> end + 1]

\* lines 159-169; end is the cursor after the inner loop
FencePass(lines, line, i, end) ==
    [blocks |-> <<[type |-> "code_block", language |-> FenceLanguage(line),
                   content |-> Join(Slice(lines, i + 2, end), NL)]>>,
     next   |-> end + 1]

\* line.substring(1).trim()
QuoteContent(line) == Trim(Slice(line, 2, Len(line)))

\* a slip: the quote lines that follow are taken into the same block
QuotePassMerged(lines, line, i) ==
    LET end == Min({j \in (i + 1)..Len(lines) :
                       j = Len(lines) \/ ~StartsWith(Trim(lines[j + 1]), <<">">>)})
    IN  [blocks |-> <<[type |-> "blockquote",
                       content |-> Join([k \in 1..(end - i) |->
                                            QuoteContent(Trim(lines[i + k]))], NL)]>>,
         next   |-> end]

\* lines 172-178
QuotePass(lines, line, i) ==
    [blocks |-> <<[type |-> "blockquote", content |-> QuoteContent(line)]>>,
     next   |-> i + 1]

\* a slip: an i++ after the push of a list, as in the other branches
ListPassSkipsLine(ordered, run) ==
    [blocks |-> <<[type |-> "list", ordered |-> ordered, items |-> run.items]>>,
     next   |-> run.next + 1]

\* lines 200-202 and 219-221; run is the result of the inner loop
ListPass(ordered, run) ==
    [blocks |-> <<[type |-> "list", ordered |-> ordered, items |-> run.items]>>,
     next   |-> run.next]

\* one pass of the while loop of lines 145-231 at cursor i < lines.length:
\* the blocks pushed (none for a blank line) and the cursor after the pass
LinePass(lines, line, i) ==
        IF line = <<>> THEN [blocks |-> <<>>, next |-> i + 1]
        ELSE IF HeaderLevel(line) # 0
        THEN HeadingPass(line, HeaderLevel(line), i)
        ELSE IF StartsWith(line, Ticks)
        THEN FencePass(lines, line, i, FenceEnd(lines, i))
        ELSE IF StartsWith(line, <<">">>)
        THEN QuotePass(lines, line, i)
        ELSE IF IsRule(line)
        THEN [blocks |-> <<[type |-> "horizontal_rule"]>>, next |-> i + 1]
        ELSE IF UnorderedItem(line) # <<>>
        THEN ListPass(FALSE, ListRun(lines, i, FALSE))
        ELSE IF OrderedItem(line) # <<>>
        THEN ListPass(TRUE, ListRun(lines, i, TRUE))
        ELSE [blocks |-> <<Paragraph(line)>>, next |-> i + 1]

\* a slip: the line not trimmed
BlockAtUntrimmed(lines, i) == LinePass(lines, lines[i + 1], i)

BlockAt(lines, i) == LinePass(lines, Trim(lines[i + 1]), i)

(***************************************************************************)
(* shared/parser.ts, countWords (server/routes.ts holds the same function). *)
(***************************************************************************)
\* lines 19-22: fenced code, inline code and images to a space, links to their text
StripCodeAndLinks(markdown) ==
    LET t1 == ReplaceAll(markdown, "fenced")
        t2 == ReplaceAll(t1, "inlineCode")
        t3 == ReplaceAll(t2, "image")
    IN  ReplaceAll(t3, "wordLink")

\* lines 23-26: the markers at the line starts
StripLineMarkers(text) ==
    LET t5 == ReplaceAll(text, "quoteMark")
        t6 == ReplaceAll(t5, "headingMark")
        t7 == ReplaceAll(t6, "bulletMark")
    IN  ReplaceAll(t7, "numberMark")

\* lines 27-30: emphasis characters, HTML tags, whitespace
StripMarkup(text) ==
    LET t9  == SelectSeq(text, LAMBDA c : c \notin {"*", "_", "~"})
        t10 == ReplaceAll(t9, "htmlTag")
        t11 == ReplaceAll(t10, "breakRun")
    IN  Trim(ReplaceAll(t11, "spaceRun"))

\* the text countWords splits into words
WordText(markdown) == StripMarkup(StripLineMarkers(StripCodeAndLinks(markdown)))

\* text ? text.split(/\s+/).length : 0
WordsOf(text) == IF text = <<>> THEN 0 ELSE Len(SplitRuns(text, Space))

CountWords(markdown) == WordsOf(WordText(markdown))

\* a slip: Math.floor(wordCount / 200) + 1
ReadingTimeFloor(wordCount) == (wordCount \div 200) + 1

\* Math.max(1, Math.ceil(wordCount / 200))
ReadingTime(wordCount) ==
    LET ceil == (wordCount + 199) \div 200
    IN  IF ceil > 1 THEN ceil ELSE 1

(***************************************************************************)
(* server/routes.ts, parseMarkdownToStructuredJson: the frontmatter.       *)
(* yaml.parse belongs to a library.  Its result is modelled for the texts   *)
(* the generated inputs hold between the delimiters: blank lines, comment  *)
(* lines and "key: value" lines whose value is a plain scalar or a flow     *)
(* sequence [a, b].  An object is a sequence of key/value pairs; a value   *)
(* is a string or a list of strings.                                       *)
(***************************************************************************)
YamlString(t) == [kind |-> "string", text |-> t, items |-> <<>>]
YamlList(xs) == [kind |-> "list", text |-> <<>>, items |-> xs]
Undefined == [kind |-> "undefined", text |-> <<>>, items |-> <<>>]

TrimAll(xs) == [k \in 1..Len(xs) |-> Trim(xs[k])]

YamlValue(v) ==
    IF StartsWith(v, <<"[">>) /\ v[Len(v)] = "]"
    THEN YamlList(NonEmpty(TrimAll(SplitChar(Slice(v, 2, Len(v) - 1), ","))))
    ELSE YamlString(v)

IsYamlComment(line) == Trim(line) = <<>> \/ StartsWith(TrimStart(line), <<"#">>)

\* the position of the ":" that ends the key of a "key: value" line, 0 if none
YamlColon(line) ==
    LET c == IndexOf(line, <<":", " ">>, 2)
    IN  IF c # 0 THEN c
        ELSE IF Len(line) >= 2 /\ line[Len(line)] = ":" THEN Len(line) ELSE 0

YamlPair(line) ==
    [key   |-> Trim(Slice(line, 1, YamlColon(line) - 1)),
     value |-> YamlValue(Trim(Slice(line, YamlColon(line) + 1, Len(line))))]

RECURSIVE YamlPairs(_)
YamlPairs(ls) ==
    IF ls = <<>> THEN <<>>
    ELSE IF IsYamlComment(ls[1]) THEN YamlPairs(Tail(ls))
    ELSE <<YamlPair(ls[1])>> \o YamlPairs(Tail(ls))

IsYamlMapping(ls) == \A k \in 1..Len(ls) : IsYamlComment(ls[k]) \/ YamlColon(ls[k]) # 0

\* frontmatter.key: the value of the last pair with the key
Lookup(object, key) ==
    LET hits == {k \in 1..Len(object) : object[k].key = key}
    IN  IF hits = {} THEN Undefined ELSE object[Max(hits)].value

\* an object of the pairs: the keys in the order of their first pair, each
\* with the value of its last pair
ObjectOf(pairs) ==
    LET keys == Dedup([k \in 1..Len(pairs) |-> pairs[k].key])
    IN  [k \in 1..Len(keys) |-> [key |-> keys[k], value |-> Lookup(pairs, keys[k])]]

\* yaml.parse(text) || {}, with {} for an error (the catch of line 63): the
\* possible results.  A repeated key is an error or gives the last value,
\* with the version and the options of the library.
YamlOutcomesOf(pairs) ==
    IF Len(ObjectOf(pairs)) < Len(pairs) THEN {<<>>, ObjectOf(pairs)} ELSE {pairs}

YamlOutcomes(text) == YamlOutcomesOf(YamlPairs(SplitChar(text, "\n")))

\* markdown.indexOf('---', 3) + 1 when markdown.startsWith('---'), else 0
RouteFmEnd(markdown) ==
    IF StartsWith(markdown, Dashes) THEN IndexOf(markdown, Dashes, 4) ELSE 0

\* markdown.slice(3, end).trim()
RouteFmText(markdown, end) == Trim(Slice(markdown, 4, end - 1))

\* markdown.slice(end + 3).replace(/^\s+/, '')
RouteBody(markdown, end) ==
    IF end = 0 THEN markdown ELSE TrimStart(Slice(markdown, end + 3, Len(markdown)))

\* a truthy value
Truthy(v) == v.kind = "list" \/ (v.kind = "string" /\ v.text # <<>>)

\* String(v), as new Date(v) and the title read it
TextOf(v) == IF v.kind = "list" THEN Join(v.items, <<",">>) ELSE v.text

\* lines 70-75: the tags of the frontmatter
RouteFmTags(v) ==
    IF v.kind = "list" THEN v.items
    ELSE IF v.kind = "string" THEN NonEmpty(SplitRuns(v.text, {","} \cup Space))
    ELSE <<>>

\* new Date(v).toISOString() of line 78 or 79: Invalid stands for the
\* RangeError that toISOString() throws on an Invalid Date
RouteDate(v) == IF Truthy(v) THEN ParseDate(TextOf(v)) ELSE Absent

KeyTags == <<"t", "a", "g", "s">>
KeyAlias == <<"a", "l", "i", "a", "s">>
KeyCreated == <<"c", "r", "e", "a", "t", "e", "d">>
KeyModified == <<"m", "o", "d", "i", "f", "i", "e", "d">>
KeyTitle == <<"t", "i", "t", "l", "e">>

\* lines 82-84: the further keys that Object.assign gives the metadata
RouteCustom(object) ==
    SelectSeq(object, LAMBDA pr :
        pr.key \notin {KeyTags, KeyAlias, KeyCreated, KeyModified, KeyTitle})

\* lines 77-84: the metadata of the frontmatter
RouteMetadata(object) ==
    [created  |-> RouteDate(Lookup(object, KeyCreated)),
     modified |-> RouteDate(Lookup(object, KeyModified)),
     alias    |-> IF Truthy(Lookup(object, KeyAlias))
                  THEN TextOf(Lookup(object, KeyAlias)) ELSE Absent,
     custom   |-> RouteCustom(object)]

\* line 92
RouteTitle(v) == IF Truthy(v) THEN TextOf(v) ELSE Absent

(***************************************************************************)
(* server/routes.ts, parseInlineElements.                                  *)
(***************************************************************************)
\* a slip: the alias and the section kept in the note
WikiNoteWhole(wiki) == Trim(wiki)

\* lines 204-216: the note of the text between "[[" and "]]"
WikiNote(wiki) ==
    LET pipeIndex == FirstIn(wiki, 1, {"|"})
        hashIndex == FirstIn(wiki, 1, {"#"})
        note      == IF pipeIndex # 0 THEN Slice(wiki, 1, pipeIndex - 1) ELSE wiki
    IN  Trim(IF hashIndex # 0 THEN Slice(note, 1, Min({hashIndex - 1, Len(note)}))
             ELSE note)

\* lines 204-217: the display of the text between "[[" and "]]"
WikiDisplay(wiki) ==
    LET pipeIndex == FirstIn(wiki, 1, {"|"})
    IN  Trim(IF pipeIndex # 0 THEN Slice(wiki, pipeIndex + 1, Len(wiki)) ELSE wiki)

\* lines 203-225: the span of the match m
RouteSpan(text, m) ==
    IF MatchesAt(text, <<"[", "[">>, m.start)
    THEN [type |-> "internal_link",
          note |-> WikiNote(Slice(text, m.start + 2, m.end - 3)),
          text |-> WikiDisplay(Slice(text, m.start + 2, m.end - 3))]
    ELSE [type |-> "external_link",
          url  |-> Slice(text, LinkClose(text, m.start)[1] + 2, m.end - 2),
          text |-> Slice(text, m.start + 1, LinkClose(text, m.start)[1] - 1)]

RouteText(t) == [type |-> "text", text |-> t]

\* lines 197-227: the walk over the matches; last is lastIndex + 1
RouteInlineWalk(text, ms) ==
    LET F[k \in 0..Len(ms)] ==
            IF k = 0 THEN <<>>
            ELSE (IF Trim(Slice(text, IF k = 1 THEN 1 ELSE ms[k - 1].end,
                                ms[k].start - 1)) # <<>>
                  THEN Append(F[k - 1],
                              RouteText(Slice(text, IF k = 1 THEN 1 ELSE ms[k - 1].end,
                                              ms[k].start - 1)))
                  ELSE F[k - 1]) \o <<RouteSpan(text, ms[k])>>
    IN  F[Len(ms)]

\* lines 229-236
RouteInlineTail(text, ms, elements) ==
    IF ms = <<>>
    THEN IF Trim(text) # <<>> THEN <<RouteText(text)>> ELSE <<>>
    ELSE IF Trim(Slice(text, ms[Len(ms)].end, Len(text))) # <<>>
         THEN Append(elements, RouteText(Slice(text, ms[Len(ms)].end, Len(text))))
         ELSE elements

RouteInlineOf(text, ms) == RouteInlineTail(text, ms, RouteInlineWalk(text, ms))

\* parseInlineElements(text, internalLinks, externalLinks): the spans
RouteInline(text) == RouteInlineOf(text, AllMatches(text, "routeInline"))

\* the notes and the urls it adds to internalLinks and externalLinks, in order
NotesOf(spans) ==
    LET picked == SelectSeq(spans, LAMBDA e : e.type = "internal_link")
    IN  [k \in 1..Len(picked) |-> picked[k].note]

UrlsOf(spans) ==
    LET picked == SelectSeq(spans, LAMBDA e : e.type = "external_link")
    IN  [k \in 1..Len(picked) |-> picked[k].url]

(***************************************************************************)
(* server/routes.ts: the branches of the block loop.                       *)
(***************************************************************************)
\* the first position >= p whose character is a line terminator
DotEnd(s, p) == Min({q \in p..(Len(s) + 1) : q = Len(s) + 1 \/ ~IsDot(s[q])})

\* match[1] of line.match(/^[-*+]\s+(.+)/), <<>> when no match
RouteUnorderedItem(line) ==
    LET w == RunEnd(line, 2, Space)
    IN  IF Len(line) >= 1 /\ line[1] \in {"-", "*", "+"} /\ w > 2 /\ w <= Len(line)
        THEN Slice(line, w, DotEnd(line, w) - 1) ELSE <<>>

\* match[1] of line.match(/^\d+\.\s+(.+)/), <<>> when no match
RouteOrderedItem(line) ==
    LET d == RunEnd(line, 1, Digits)
        w == RunEnd(line, d + 1, Space)
    IN  IF d > 1 /\ MatchesAt(line, <<".">>, d) /\ w > d + 1 /\ w <= Len(line)
        THEN Slice(line, w, DotEnd(line, w) - 1) ELSE <<>>

RouteListItem(line, ordered) ==
    IF ordered THEN RouteOrderedItem(line) ELSE RouteUnorderedItem(line)

\* lines 133-137: the item of the spans
RouteItemOf(spans) ==
    IF Len(spans) = 1 /\ spans[1].type = "text"
    THEN [text |-> spans[1].text]
    ELSE [inline |-> spans]

\* lines 128-141: the inner loop of a list, from cursor j; spans collects the
\* spans of the items, from which the links are added
RECURSIVE RouteListRun(_, _, _)
RouteListRun(lines, j, ordered) ==
    IF j >= Len(lines) THEN [items |-> <<>>, spans |-> <<>>, next |-> j]
    ELSE IF RouteListItem(Trim(lines[j + 1]), ordered) # <<>>
    THEN [items |-> <<RouteItemOf(RouteInline(RouteListItem(Trim(lines[j + 1]), ordered)))>>
                      \o RouteListRun(lines, j + 1, ordered).items,
          spans |-> RouteInline(RouteListItem(Trim(lines[j + 1]), ordered))
                      \o RouteListRun(lines, j + 1, ordered).spans,
          next  |-> RouteListRun(lines, j + 1, ordered).next]
    ELSE IF Trim(lines[j + 1]) = <<>> THEN RouteListRun(lines, j + 1, ordered)
    ELSE [items |-> <<>>, spans |-> <<>>, next |-> j]

\* lines 148-152
RouteParagraphOf(spans) ==
    IF Len(spans) = 1 /\ spans[1].type = "text"
    THEN [type |-> "paragraph", text |-> spans[1].text]
    ELSE [type |-> "paragraph", inline |-> spans]

RouteListPass(ordered, run) ==
    [blocks |-> <<[type |-> "list", ordered |-> ordered, items |-> run.items]>>,
     spans  |-> run.spans,
     next   |-> run.next]

RouteParagraphPass(spans, i) ==
    [blocks |-> <<RouteParagraphOf(spans)>>, spans |-> spans, next |-> i + 1]

\* one pass of the while loop of lines 95-154 at cursor i < lines.length
RouteLinePass(lines, line, i) ==
    IF line = <<>> THEN [blocks |-> <<>>, spans |-> <<>>, next |-> i + 1]
    ELSE IF HeaderLevel(line) # 0
    THEN [blocks |-> <<[type |-> "heading", level |-> HeaderLevel(line),
                        text |-> HeaderText(line)]>>,
          spans |-> <<>>, next |-> i + 1]
    ELSE IF StartsWith(line, Ticks)
    THEN [blocks |-> <<[type |-> "code_block", language |-> FenceLanguage(line),
                        code |-> Join(Slice(lines, i + 2, FenceEnd(lines, i)), NL)]>>,
          spans |-> <<>>, next |-> FenceEnd(lines, i) + 1]
    ELSE IF RouteUnorderedItem(line) # <<>>
    THEN RouteListPass(FALSE, RouteListRun(lines, i, FALSE))
    ELSE IF RouteOrderedItem(line) # <<>>
    THEN RouteListPass(TRUE, RouteListRun(lines, i, TRUE))
    ELSE RouteParagraphPass(RouteInline(line), i)

RouteBlockAt(lines, i) == RouteLinePass(lines, Trim(lines[i + 1]), i)

\* line 106: the title after the blocks of a pass
TitleAfter(title, blocks) ==
    IF title = Absent /\ blocks # <<>> /\ blocks[1].type = "heading"
       /\ blocks[1].level = 1
    THEN blocks[1].text ELSE title

\* one exec of /(^|\s)#([a-zA-Z0-9_/-]+)/g
RouteTagChars == TagChars \cup {"/"}

RouteTagHashAt(s, q) ==
    IF q = 1 /\ MatchesAt(s, <<"#">>, 1) /\ RunEnd(s, 2, RouteTagChars) > 2 THEN 1
    ELSE IF q <= Len(s) /\ s[q] \in Space /\ MatchesAt(s, <<"#">>, q + 1)
            /\ RunEnd(s, q + 2, RouteTagChars) > q + 2 THEN q + 1
    ELSE 0

RECURSIVE RouteScanTags(_, _)
RouteScanTags(s, p) ==
    LET hits == {q \in p..Len(s) : RouteTagHashAt(s, q) # 0}
        h    == RouteTagHashAt(s, Min(hits))
        e    == RunEnd(s, h + 1, RouteTagChars)
    IN  IF hits = {} THEN <<>>
        ELSE <<Slice(s, h + 1, e - 1)>> \o RouteScanTags(s, e)

\* lines 156-161: the hashtags of the body without its fenced code
RouteHashtags(markdown) == RouteScanTags(ReplaceAll(markdown, "fenced"), 1)

(***************************************************************************)
(* unnamed/part_002: validateMarkdown, applyAutofix and applyAllAutofixes. *)
(* Of the entries validateMarkdown reports, the model holds those with an  *)
(* autofix: the filter of line 305 drops every other entry.  index is the  *)
(* 0-based index of a line, startIndex and endIndex are 0-based offsets.   *)
(***************************************************************************)
\* lines.slice(0, index).join('\n').length + (index > 0 ? 1 : 0)
LineStartIndex(lines, index) ==
    Len(Join(Slice(lines, 1, index), NL)) + (IF index > 0 THEN 1 ELSE 0)

\* lines 180-197: line.match(/^(#{1,6})([^#\s].*)/) and its warning
HeaderNoSpaceFix(lines, index) ==
    LET line == lines[index + 1]
        h    == RunEnd(line, 1, {"#"}) - 1
        e    == Min({q \in (h + 2)..(Len(line) + 1) : q = Len(line) + 1 \/ ~IsDot(line[q])})
        lineStart == LineStartIndex(lines, index)
    IN  IF h >= 1 /\ h <= 6 /\ h + 1 <= Len(line) /\ line[h + 1] \notin Space
        THEN <<[type |-> "warning", message |-> "Header should have space after #",
                line |-> index + 1,
                autofix |-> [oldText    |-> Slice(line, 1, e - 1),
                             newText    |-> Slice(line, 1, h) \o <<" ">> \o Slice(line, h + 1, e - 1),
                             startIndex |-> lineStart,
                             endIndex   |-> lineStart + e - 1]]>>
        ELSE <<>>

\* /!\[\]\([^)]+\)/g
ImageNoAltEndAt(s, q) ==
    LET c == FirstIn(s, q + 4, {")"})
    IN  IF MatchesAt(s, <<"!", "[", "]", "(">>, q) /\ c > q + 4 THEN c + 1 ELSE 0

\* url.split('/').pop()?.split('.')[0] || 'image'
ImageFileName(url) ==
    LET last == SplitChar(url, "/")[Len(SplitChar(url, "/"))]
        name == SplitChar(last, ".")[1]
    IN  IF name = <<>> THEN <<"i", "m", "a", "g", "e">> ELSE name

\* lines 240-259: one warning for each match; match is the text of the match,
\* placed at line.indexOf(match)
ImageNoAltFix(lines, index, match) ==
    LET matchStart == LineStartIndex(lines, index) + IndexOf(lines[index + 1], match, 1) - 1
        url == Slice(match, 5, Len(match) - 1)
    IN  [type |-> "warning", message |-> "Image missing alt text", line |-> index + 1,
         autofix |-> [oldText    |-> match,
                      newText    |-> <<"!", "[">> \o ImageFileName(url) \o <<"]", "(">>
                                       \o url \o <<")">>,
                      startIndex |-> matchStart,
                      endIndex   |-> matchStart + Len(match)]]

\* lines 237-261: line.match(/!\[\]\([^)]+\)/g) and imageNoAlt.forEach; ms
\* is the array of the matches
ImageNoAltFixes(lines, index, ms) ==
    [k \in 1..Len(ms) |->
        ImageNoAltFix(lines, index, Slice(lines[index + 1], ms[k].start, ms[k].end - 1))]

\* lines 264-283: line.endsWith(' ') && line.trim() !== ''
TrailingSpaceFix(lines, index) ==
    LET line == lines[index + 1]
        lineStart == LineStartIndex(lines, index)
    IN  IF line # <<>> /\ line[Len(line)] = " " /\ Trim(line) # <<>>
        THEN <<[type |-> "warning", message |-> "Trailing whitespace", line |-> index + 1,
                autofix |-> [oldText    |-> line,
                             newText    |-> TrimEnd(line),
                             startIndex |-> lineStart,
                             endIndex   |-> lineStart + Len(line)]]>>
        ELSE <<>>

\* the warnings of validateMarkdown(markdown) that carry an autofix, in the
\* order of the pushes: the three lines.forEach of lines 169, 237 and 264
AutofixWarnings(lines) ==
    LET H[k \in 0..Len(lines)] ==
            IF k = 0 THEN <<>> ELSE H[k - 1] \o HeaderNoSpaceFix(lines, k - 1)
        I[k \in 0..Len(lines)] ==
            IF k = 0 THEN <<>>
            ELSE I[k - 1] \o ImageNoAltFixes(lines, k - 1,
                     MatchesOf(lines[k], [q \in 1..Len(lines[k]) |-> ImageNoAltEndAt(lines[k], q)]))
        T[k \in 0..Len(lines)] ==
            IF k = 0 THEN <<>> ELSE T[k - 1] \o TrailingSpaceFix(lines, k - 1)
    IN  H[Len(lines)] \o I[Len(lines)] \o T[Len(lines)]

\* validateMarkdown(markdown): lines = markdown.split('\n')
ValidateMarkdown(markdown) == AutofixWarnings(SplitChar(markdown, "\n"))

\* lines 304-306: .filter(error => error.autofix).sort((a, b) =>
\* b.autofix.startIndex - a.autofix.startIndex), a stable sort
SortByStartIndexDesc(errors) ==
    LET before(a, b) ==
            \/ errors[a].autofix.startIndex > errors[b].autofix.startIndex
            \/ (errors[a].autofix.startIndex = errors[b].autofix.startIndex /\ a < b)
        rank(a) == Cardinality({b \in 1..Len(errors) : before(b, a)}) + 1
    IN  [r \in 1..Len(errors) |-> errors[CHOOSE a \in 1..Len(errors) : rank(a) = r]]

\* markdown.slice(startIndex, endIndex) with the clamping of slice
TextAt(markdown, autofix) ==
    Slice(markdown, autofix.startIndex + 1, Min({autofix.endIndex, Len(markdown)}))

\* applyAutofix(markdown, autofix):
\* markdown.slice(0, startIndex) + newText + markdown.slice(endIndex)
ApplyAutofix(markdown, autofix) ==
    Slice(markdown, 1, Min({autofix.startIndex, Len(markdown)}))
        \o autofix.newText
        \o Slice(markdown, autofix.endIndex + 1, Len(markdown))

(***************************************************************************)
(* The inputs: every text of at most MaxLen characters of Alphabet, every  *)
(* document of at most MaxLines lines of BlockLines, every document that   *)
(* opens with a "---" line followed by at most MaxFmLines lines of FmLines, *)
(* and the example documents of the specification.                         *)
(***************************************************************************)
Alphabet == {"#", " ", "\n", "-", Tick, "a", ">", "1", ".", "*"}

CharDocs == UNION {[1..n -> Alphabet] : n \in 0..MaxLen}

LnBlank == <<>>
LnHeading == <<"#", " ", "T">>
LnFence == <<Tick, Tick, Tick>>
LnFenceLang == <<Tick, Tick, Tick, "j", "s">>
LnQuote == <<">", " ", "q">>
LnRule == <<"-", "-", "-">>
LnDash == <<"-", " ", "x">>
LnStar == <<"*", " ", "y">>
LnNumber == <<"1", ".", " ", "z">>
LnPara == <<"p", " ", "w">>
LnHashtag == <<"#", "t">>
LnFooRule == <<"-", "-", "-", "f", "o", "o">>
LnPair == <<"a", ":", " ", "b">>
LnTagList == <<"t", "a", "g", "s", ":", " ", "[", "a", ",", " ", "b", "]">>
LnTagWord == <<"t", "a", "g", "s", ":", " ", "t">>
LnCreated == <<"c", "r", "e", "a", "t", "e", "d", ":", " ", "2", "0", "2", "4", "-", "0", "1", "-", "0", "1">>
LnCreatedBad == <<"c", "r", "e", "a", "t", "e", "d", ":", " ", "z", "z">>
LnHi == <<"#", " ", "H", "i">>

BlockLines == {LnBlank, LnHeading, LnFence, LnFenceLang, LnQuote, LnRule, LnDash, LnStar, LnNumber, LnPara, LnHashtag}
FmLines == {LnRule, LnBlank, LnHashtag, LnFooRule, LnPair, LnTagList, LnTagWord, LnCreated, LnCreatedBad, LnHi}

Docs(vocabulary, maxLines) ==
    {Join(ls, NL) : ls \in UNION {[1..n -> vocabulary] : n \in 1..maxLines}}

BlockDocs == Docs(BlockLines, MaxLines)

FmDocs == {Dashes} \cup {Dashes \o NL \o d : d \in Docs(FmLines, MaxFmLines)}

\* the lines with links, for the inline parser of server/routes.ts
LnWikiAlias ==
    <<"[", "[", "T", "a", "r", "g", "e", "t", " ", "P", "a", "g", "e", "|",
      "D", "i", "s", "p", "l", "a", "y", "]", "]">>
LnWikiSection == <<"[", "[", "T", " ", "#", "s", "|", "D", "]", "]">>
LnWikiDisplayHash == <<"[", "[", "T", "|", "D", "#", "x", "]", "]">>
LnWikiItem == <<"-", " ", "[", "[", " ", "T", " ", "|", " ", "D", " ", "]", "]">>
LnWikiPlain == <<"s", "e", "e", " ", "[", "[", "N", "]", "]">>
LnHttp == <<"[", "a", "]", "(", "h", "t", "t", "p", ":", "/", "/", "x", ")">>
LnHttpsItem == <<"+", " ", "[", "b", "]", "(", "h", "t", "t", "p", "s", ":", "/", "/", "y", ")">>
LnMailto == <<"[", "c", "]", "(", "m", "a", "i", "l", "t", "o", ":", "z", ")">>
LnRelative == <<"[", "d", "]", "(", "/", "p", ")">>

LinkLines ==
    {LnWikiAlias, LnWikiSection, LnWikiDisplayHash, LnWikiItem, LnWikiPlain, LnHttp,
     LnHttpsItem, LnMailto, LnRelative}

LinkDocs == Docs(LinkLines, MaxLinkLines)

\* the lines for validateMarkdown: headers with and without a space after
\* the marker, images without alt text, lines with trailing spaces
LnHeaderNoSpace == <<"#", "x">>
LnHeaderNoSpaceTrailing == <<"#", "#", "y", " ">>
LnTrailing == <<"w", " ", " ">>
LnImage == <<"!", "[", "]", "(", "a", ")">>
LnImageTwice ==
    <<"!", "[", "]", "(", "a", ")", " ", "!", "[", "]", "(", "a", ")">>
LnImagePath ==
    <<"!", "[", "]", "(", "d", "/", "f", ".", "p", ")", " ", "!", "[", "]", "(", "/", ")">>
LnImageTrailing == <<"x", " ", "!", "[", "]", "(", "a", ")", " ">>

FixLines ==
    {LnBlank, LnHeading, LnPara, LnHeaderNoSpace, LnHeaderNoSpaceTrailing, LnTrailing,
     LnImage, LnImageTwice, LnImagePath, LnImageTrailing}

FixDocs == Docs(FixLines, MaxFixLines)

\* the examples of section 8 of the specification
ExTitle ==
    <<"#", " ", "T", "i", "t", "l", "e">>
ExWordCount ==
    <<"H", "e", "l", "l", "o", " ", "*", "*", "w", "o", "r", "l", "d", "*",
      "*", ",", " ", "s", "e", "e", " ", "[", "h", "e", "r", "e", "]", "(",
      "h", "t", "t", "p", ":", "/", "/", "x", ".", "c", "o", "m", ")", " ",
      "a", "n", "d", " ", Tick, "c", "o", "d", "e", Tick, ".">>
ExFrontmatter ==
    <<"-", "-", "-", "\n", "t", "a", "g", "s", ":", " ", "[", "a", ",", " ",
      "b", "]", "\n", "c", "r", "e", "a", "t", "e", "d", ":", " ", "2", "0",
      "2", "4", "-", "0", "1", "-", "0", "1", "\n", "-", "-", "-", "\n", "#",
      " ", "H", "i">>
ExUnclosedFence ==
    <<"i", "n", "t", "r", "o", "\n", Tick, Tick, Tick, "j", "s", "\n", "l",
      "e", "t", " ", "a", " ", "=", " ", "1", "\n", "\n", "#", " ", "n", "o",
      "t", " ", "a", " ", "h", "e", "a", "d", "i", "n", "g", "\n", "-", " ",
      "x">>

\* frontmatter tags and body hashtags that repeat, in two letter cases
ExDuplicates ==
    <<"-", "-", "-", "\n", "t", "a", "g", "s", ":", " ", "[", "b", ",",
      " ", "a", "]", "\n", "-", "-", "-", "\n", "#", "a", " ", "#", "B",
      " ", "#", "b", " ", "#", "a", " ", "[", "[", "W", "]", "]", " ", "[",
      "[", "w", "]", "]", " ", "[", "[", "W", "]", "]">>

\* a list whose items have the three markers
ExMixedMarkers ==
    <<"-", " ", "a", "\n", "*", " ", "b", "\n", "+", " ", "c">>

\* a wikilink with a section suffix; a frontmatter with the key modified
ExWikiSection ==
    <<"[", "[", "T", "a", "r", "g", "e", "t", " ", "P", "a", "g", "e", "#",
      "S", "e", "c", "]", "]">>
ExModified ==
    <<"-", "-", "-", "\n", "m", "o", "d", "i", "f", "i", "e", "d", ":",
      " ", "2", "0", "2", "4", "-", "0", "1", "-", "0", "1", "\n", "-",
      "-", "-", "\n", "#", " ", "H", "i">>

\* a heading of level 6, then lines that begin with seven #
ExHeadingLevels ==
    <<"#", "#", "#", "#", "#", "#", " ", "s", "\n", "#", "#", "#", "#",
      "#", "#", "#", " ", "x", "\n", "#", "#", "#", "#", "#", "#", "#">>

\* a closed fence whose inner lines look like blocks and carry outer whitespace
ExFenceVerbatim ==
    <<Tick, Tick, Tick, "j", "s", "\n", " ", " ", "#", " ", "h", " ", " ",
      "\n", "-", " ", "x", "\n", ">", " ", "q", "\n", "-", "-", "-", "\n",
      "\n", " ", "p", " ", "\n", Tick, Tick, Tick, "\n", "a", "f", "t",
      "e", "r">>

\* list items separated by two blank lines, a heading, an item, trailing blank lines
ExListBlanks ==
    <<"-", " ", "a", "\n", "\n", "\n", "*", " ", "b", "\n", "#", " ", "T",
      "\n", "1", ".", " ", "c", "\n", "\n", "2", ".", " ", "d", "\n", "\n">>

\* two inline matches with a single space between them
ExWhitespaceGap ==
    <<"*", "*", "a", "*", "*", " ", "*", "b", "*">>

Examples ==
    {ExTitle, ExWordCount, ExFrontmatter, ExUnclosedFence, ExDuplicates,
     ExMixedMarkers, LnWikiAlias, ExWikiSection, ExModified,
     ExHeadingLevels,
     ExFenceVerbatim,
     ExListBlanks,
     ExWhitespaceGap}

Inputs == CharDocs \cup BlockDocs \cup FmDocs \cup Examples

(***************************************************************************)
(* The state of one call parseMarkdownToStructuredJson(input) of            *)
(* shared/parser.ts.                                                       *)
(***************************************************************************)
VARIABLES
    input,        \* the argument
    pc,           \* "start", "scan", "blocks", "done"
    fmMatch,      \* the frontmatter match (found, fm, len)
    markdown,     \* the parameter, reassigned to the body at line 128
    tags, wikilinks, createdAt, updatedAt,
    lines, i, elements, elementCount,
    origin,       \* history: for each block the cursor before and after its pass
    result,       \* the value returned
    \* server/routes.ts only
    frontmatter,  \* the parsed frontmatter, a sequence of key/value pairs
    metadata, title, internalLinks, externalLinks,
    error,        \* the exception raised, "none" if none
    first,        \* the value returned by an earlier call on the same argument
    \* unnamed/part_002 only
    validationErrors,  \* the entries of validateMarkdown(input) that carry an autofix
    sortedErrors,      \* the local of applyAllAutofixes
    found         \* history: the text each fix found at its range when it was applied

sharedVars == <<fmMatch, wikilinks, createdAt, updatedAt, origin>>
routeVars == <<frontmatter, metadata, title, internalLinks, externalLinks, error>>
fixVars == <<validationErrors, sortedErrors, found>>

vars == <<input, pc, fmMatch, markdown, tags, wikilinks, createdAt, updatedAt,
          lines, i, elements, elementCount, origin, result,
          frontmatter, metadata, title, internalLinks, externalLinks, error, first,
          validationErrors, sortedErrors, found>>

NoMetadata == [created |-> Absent, modified |-> Absent, alias |-> Absent, custom |-> <<>>]

NoResult ==
    [json     |-> [type |-> "none", children |-> <<>>],
     stats    |-> [elements |-> 0],
     metadata |-> [word_count |-> 0, reading_time |-> 0, tags |-> <<>>,
                   wikilinks |-> <<>>, created_at |-> <<>>, updated_at |-> <<>>]]

InitOn(inputs) ==
    /\ input \in inputs
    /\ pc = "start"
    /\ fmMatch = [found |-> FALSE, fm |-> <<>>, len |-> 0]
    /\ markdown = input
    /\ tags = <<>> /\ wikilinks = <<>>
    /\ createdAt = Now /\ updatedAt = Now
    /\ lines = <<>> /\ i = 0 /\ elements = <<>> /\ elementCount = 0
    /\ origin = <<>>
    /\ result = NoResult
    /\ frontmatter = <<>>
    /\ metadata = NoMetadata
    /\ title = Absent
    /\ internalLinks = <<>> /\ externalLinks = <<>>
    /\ error = "none"
    /\ first = NoResult
    /\ validationErrors = <<>> /\ sortedErrors = <<>> /\ found = <<>>

Init == InitOn(Inputs)

\* lines 94-129
ExtractFrontmatter ==
    /\ pc = "start"
    /\ \E m \in {FmMatch(markdown)},
          acc \in {FrontmatterOf(FmMatch(markdown),
                                 [tags |-> tags, createdAt |-> createdAt,
                                  updatedAt |-> updatedAt])} :
           /\ fmMatch' = m
           /\ tags' = acc.tags
           /\ createdAt' = acc.createdAt
           /\ updatedAt' = acc.updatedAt
           /\ markdown' = BodyAfter(markdown, m)
    /\ pc' = "scan"
    /\ UNCHANGED <<input, wikilinks, lines, i, elements, elementCount, origin, result>>
    /\ UNCHANGED routeVars
    /\ UNCHANGED first
    /\ UNCHANGED fixVars

\* a slip: an array that lives outside the function and is never emptied
SameArray(old) == old

\* lines 90, 91 and 141: a local array starts empty at each call, whatever
\* the variable held before
NewArray(old) == <<>>

\* lines 130-144
ScanMetadata ==
    /\ pc = "scan"
    /\ tags' = Dedup(tags \o ScanTags(markdown, 1))
    /\ wikilinks' = Dedup(ScanWikilinks(markdown, 1))
    /\ lines' = SplitChar(markdown, "\n")
    /\ i' = 0 /\ elements' = NewArray(elements) /\ elementCount' = 0
    /\ pc' = "blocks"
    /\ UNCHANGED <<input, fmMatch, markdown, createdAt, updatedAt, origin, result>>
    /\ UNCHANGED routeVars
    /\ UNCHANGED first
    /\ UNCHANGED fixVars

\* a slip: the items of a list counted
CountItems(count, blocks) ==
    IF blocks # <<>> /\ blocks[1].type = "list" THEN count + Len(blocks[1].items)
    ELSE count + Len(blocks)

\* elementCount++ after a push
CountBlocks(count, blocks) == count + Len(blocks)

\* one pass of the while loop, lines 145-231
BlockStep ==
    /\ pc = "blocks"
    /\ i < Len(lines)
    /\ \E r \in {BlockAt(lines, i)} :
           /\ elements' = elements \o r.blocks
           /\ elementCount' = CountBlocks(elementCount, r.blocks)
           /\ origin' = origin \o [k \in 1..Len(r.blocks) |-> [from |-> i, to |-> r.next]]
           /\ i' = r.next
    /\ UNCHANGED <<input, pc, fmMatch, markdown, tags, wikilinks, createdAt,
                   updatedAt, lines, result>>
    /\ UNCHANGED routeVars
    /\ UNCHANGED first
    /\ UNCHANGED fixVars

\* lines 232-250: the loop has ended
Finish ==
    /\ pc = "blocks"
    /\ i >= Len(lines)
    /\ \E wordCount \in {CountWords(markdown)} :
         result' =
           [json     |-> [type |-> "document", children |-> elements],
            stats    |-> [elements |-> elementCount],
            metadata |-> [word_count   |-> wordCount,
                          reading_time |-> ReadingTime(wordCount),
                          tags         |-> tags,
                          wikilinks    |-> wikilinks,
                          created_at   |-> createdAt,
                          updated_at   |-> updatedAt]]
    /\ pc' = "done"
    /\ UNCHANGED <<input, fmMatch, markdown, tags, wikilinks, createdAt, updatedAt,
                   lines, i, elements, elementCount, origin>>
    /\ UNCHANGED routeVars
    /\ UNCHANGED first
    /\ UNCHANGED fixVars

Next == ExtractFrontmatter \/ ScanMetadata \/ BlockStep \/ Finish

Spec == Init /\ [][Next]_vars

(***************************************************************************)
(* Two calls of parseMarkdownToStructuredJson of shared/parser.ts on the   *)
(* same argument.  The second call starts when the first has returned; the *)
(* clock has the same value as at the first call or a later one.  The      *)
(* function initialises its local variables itself (lines 90-93 here, the  *)
(* others in the steps that follow); origin, a history of the model, is    *)
(* emptied.                                                                *)
(***************************************************************************)
Later == <<"<later>">>

Clock == {Now, Later}

TwiceInputs == BlockDocs \cup FmDocs \cup Examples

\* lines 88-93 of the second call
CallAgain ==
    /\ pc = "done"
    /\ first = NoResult
    /\ first' = result
    /\ markdown' = input
    /\ tags' = NewArray(tags)
    /\ wikilinks' = NewArray(wikilinks)
    /\ \E now \in Clock : createdAt' = now /\ updatedAt' = now
    /\ origin' = <<>>
    /\ pc' = "start"
    /\ UNCHANGED <<input, fmMatch, lines, i, elements, elementCount, result>>
    /\ UNCHANGED routeVars
    /\ UNCHANGED fixVars

NextTwice == Next \/ CallAgain

SpecTwice == InitOn(TwiceInputs) /\ [][NextTwice]_vars

(***************************************************************************)
(* parseMarkdownToStructuredJson of shared/parser.ts on documents of n     *)
(* words: every n up to SmallWords and, for each number of minutes up to   *)
(* MaxMinutes, the multiple of 200 and its two neighbours.                 *)
(***************************************************************************)
WordCounts ==
    (0..SmallWords) \cup {200 * k + d : k \in 1..MaxMinutes, d \in {-1, 0, 1}}

\* n words "a" separated by one space
WordsDoc(n) == [k \in 1..(2 * n - 1) |-> IF k % 2 = 1 THEN "a" ELSE " "]

WordDocs == {WordsDoc(n) : n \in WordCounts}

SpecWords == InitOn(WordDocs) /\ [][Next]_vars

(***************************************************************************)
(* server/routes.ts, parseMarkdownToStructuredJson, as a state machine.    *)
(* pc: "start" -> "meta" -> "blocks" -> "done", or "meta" -> "raised"      *)
(* when line 78 or 79 throws.  The inputs are the generated documents in   *)
(* which the text between the delimiters, if any, is of the YAML modelled, *)
(* and the documents of at most MaxLinkLines lines of LinkLines.           *)
(***************************************************************************)
RouteInputs ==
    {d \in BlockDocs \cup FmDocs \cup Examples \cup LinkDocs :
        RouteFmEnd(d) # 0 => IsYamlMapping(SplitChar(RouteFmText(d, RouteFmEnd(d)), "\n"))}

InitRoute == InitOn(RouteInputs)

\* lines 57-75
RouteFrontmatter ==
    /\ pc = "start"
    /\ \E end \in {RouteFmEnd(input)} :
         \E object \in (IF end = 0 THEN {<<>>} ELSE YamlOutcomes(RouteFmText(input, end))) :
            /\ frontmatter' = object
            /\ markdown' = RouteBody(input, end)
            /\ tags' = Dedup(RouteFmTags(Lookup(object, KeyTags)))
    /\ pc' = "meta"
    /\ UNCHANGED <<input, lines, i, elements, elementCount, result, metadata, title,
                   internalLinks, externalLinks, error>>
    /\ UNCHANGED sharedVars
    /\ UNCHANGED first
    /\ UNCHANGED fixVars

\* lines 77-93
RouteMetadataStep ==
    /\ pc = "meta"
    /\ \E md \in {RouteMetadata(frontmatter)} :
         IF md.created = Invalid \/ md.modified = Invalid
         THEN /\ error' = "RangeError"
              /\ pc' = "raised"
              /\ UNCHANGED <<metadata, lines, title>>
         ELSE /\ metadata' = md
              /\ lines' = SplitChar(markdown, "\n")
              /\ title' = RouteTitle(Lookup(frontmatter, KeyTitle))
              /\ pc' = "blocks"
              /\ UNCHANGED error
    /\ UNCHANGED <<input, markdown, tags, i, elements, elementCount, result, frontmatter,
                   internalLinks, externalLinks>>
    /\ UNCHANGED sharedVars
    /\ UNCHANGED first
    /\ UNCHANGED fixVars

\* lines 95-154: one pass of the while loop
RouteBlockStep ==
    /\ pc = "blocks"
    /\ i < Len(lines)
    /\ \E r \in {RouteBlockAt(lines, i)} :
         /\ elements' = elements \o r.blocks
         /\ elementCount' = elementCount + Len(r.blocks)
         /\ internalLinks' = Dedup(internalLinks \o NotesOf(r.spans))
         /\ externalLinks' = Dedup(externalLinks \o UrlsOf(r.spans))
         /\ title' = TitleAfter(title, r.blocks)
         /\ i' = r.next
    /\ UNCHANGED <<input, pc, markdown, tags, lines, result, frontmatter, metadata, error>>
    /\ UNCHANGED sharedVars
    /\ UNCHANGED first
    /\ UNCHANGED fixVars

\* lines 156-188
RouteFinish ==
    /\ pc = "blocks"
    /\ i >= Len(lines)
    /\ \E wordCount \in {CountWords(markdown)} :
       \E allTags \in {Dedup(tags \o RouteHashtags(markdown))} :
         /\ tags' = allTags
         /\ result' =
              [json  |-> [title    |-> IF title = Absent \/ title = <<>>
                                       THEN <<"U", "n", "t", "i", "t", "l", "e", "d">>
                                       ELSE title,
                          metadata |-> [created        |-> metadata.created,
                                        modified       |-> metadata.modified,
                                        alias          |-> metadata.alias,
                                        custom         |-> metadata.custom,
                                        tags           |-> allTags,
                                        internal_links |-> internalLinks,
                                        external_links |-> externalLinks,
                                        backlinks      |-> <<>>,
                                        word_count     |-> wordCount],
                          content  |-> elements],
               stats |-> [elements |-> elementCount]]
    /\ pc' = "done"
    /\ UNCHANGED <<input, markdown, lines, i, elements, elementCount, frontmatter, metadata,
                   title, internalLinks, externalLinks, error>>
    /\ UNCHANGED sharedVars
    /\ UNCHANGED first
    /\ UNCHANGED fixVars

NextRoute == RouteFrontmatter \/ RouteMetadataStep \/ RouteBlockStep \/ RouteFinish

SpecRoute == InitRoute /\ [][NextRoute]_vars

(***************************************************************************)
(* unnamed/part_002: applyAllAutofixes(input, validationErrors) with the   *)
(* entries that validateMarkdown(input) reported.                          *)
(***************************************************************************)
parserVars ==
    <<fmMatch, markdown, tags, wikilinks, createdAt, updatedAt, lines, i, elements,
      elementCount, origin, first>>

InitFix == InitOn(FixDocs)

\* validateMarkdown(input), lines 125-290
Validate ==
    /\ pc = "start"
    /\ validationErrors' = ValidateMarkdown(input)
    /\ pc' = "validated"
    /\ UNCHANGED <<input, result, sortedErrors, found>>
    /\ UNCHANGED parserVars
    /\ UNCHANGED routeVars

\* lines 300-306: let result = markdown, the filter and the sort
SortErrors ==
    /\ pc = "validated"
    /\ result' = input
    /\ sortedErrors' = SortByStartIndexDesc(validationErrors)
    /\ pc' = "apply"
    /\ UNCHANGED <<input, validationErrors, found>>
    /\ UNCHANGED parserVars
    /\ UNCHANGED routeVars

\* lines 308-312: one iteration of for (const error of sortedErrors)
ApplyNext ==
    /\ pc = "apply"
    /\ Len(found) < Len(sortedErrors)
    /\ \E autofix \in {sortedErrors[Len(found) + 1].autofix} :
           /\ found' = Append(found, TextAt(result, autofix))
           /\ result' = ApplyAutofix(result, autofix)
    /\ UNCHANGED <<input, pc, validationErrors, sortedErrors>>
    /\ UNCHANGED parserVars
    /\ UNCHANGED routeVars

\* line 314: return result
ReturnResult ==
    /\ pc = "apply"
    /\ Len(found) = Len(sortedErrors)
    /\ pc' = "done"
    /\ UNCHANGED <<input, result, validationErrors, sortedErrors, found>>
    /\ UNCHANGED parserVars
    /\ UNCHANGED routeVars

NextFix == Validate \/ SortErrors \/ ApplyNext \/ ReturnResult

SpecFix == InitFix /\ [][NextFix]_vars

(***************************************************************************)
(* The claims about shared/parser.ts.                                      *)
(***************************************************************************)
Done == pc = "done"
Children == result.json.children
AllSpace(s) == \A k \in 1..Len(s) : s[k] \in Space
OneLine(s) == \A k \in 1..Len(s) : s[k] \notin {"\n", "\r"}

\* C1: the block loop terminates with a result: every pass of the loop moves
\* the cursor i strictly forward, never backwards and never past
\* lines.length + 1, the parser can take a step in every state before the
\* return (the guards of its steps leave no state out), and what it returns
\* is a document.
C1_LoopTerminates ==
    /\ [][pc = "blocks" /\ pc' = "blocks" => i' > i /\ i' <= Len(lines) + 1]_vars
    /\ [][i' >= i]_vars
    /\ [](\/ pc = "start" \/ pc = "scan"
          \/ (pc = "blocks" /\ i < Len(lines))
          \/ (pc = "blocks" /\ i >= Len(lines))
          \/ (Done /\ result.json.type = "document"))

\* a list run and a fence have each moved the cursor by more than one line
C1_Witness ==
    /\ Done
    /\ \E a, b \in 1..Len(origin) :
           /\ elements[a].type = "list" /\ origin[a].to > origin[a].from + 1
           /\ elements[b].type = "code_block" /\ origin[b].to > origin[b].from + 1

\* C2: stats.elements is the number of top-level blocks of json.children,
\* elementCount = length(elements) holds after every pass of the block loop,
\* and a list is one element whatever the number of its items.
C2_ElementsCount ==
    /\ elementCount = Len(elements)
    /\ Done => result.stats.elements = Len(Children)

C2_Witness ==
    /\ Done
    /\ result.stats.elements = 2
    /\ \E k \in 1..Len(Children) :
           Children[k].type = "list" /\ Len(Children[k].items) >= 2

\* C3: the route-level converter is total: for every input, also one whose
\* `created` or `modified` frontmatter value is not parseable as a date, it
\* returns a result and never raises.
C3_RouteNeverRaises == error = "none" /\ pc # "raised"

\* C4: the empty text and a text of blank or whitespace-only lines give a
\* document without blocks and stats.elements = 0.
C4_BlankInput ==
    Done /\ AllSpace(input) =>
        /\ result.json = [type |-> "document", children |-> <<>>]
        /\ result.stats.elements = 0

C4_Witness ==
    /\ Done /\ AllSpace(input)
    /\ \E a, b \in 1..Len(input) : input[a] = "\n" /\ input[b] = " "

\* the decomposition of a one-line text into n "#", whitespace and a text T
\* without whitespace at its ends
IsHeadingLine(s, n, w) ==
    /\ OneLine(s)
    /\ n + w < Len(s)
    /\ \A k \in 1..n : s[k] = "#"
    /\ \A k \in (n + 1)..(n + w) : s[k] \in Space
    /\ s[n + w + 1] \notin Space
    /\ s[Len(s)] \notin Space

\* C5: a document of one line made of n "#" (1 <= n <= 6), whitespace and a
\* non-empty text T gives exactly one block, a heading of level n and text T;
\* "# Title" gives a heading of level 1 and text "Title".
C5_SingleHeading ==
    /\ Done =>
         \A n \in 1..6, w \in 1..Len(input) :
             IsHeadingLine(input, n, w) =>
                 Children = <<[type |-> "heading", level |-> n,
                               content |-> Slice(input, n + w + 1, Len(input))]>>
    /\ Done /\ input = ExTitle =>
         Children = <<[type |-> "heading", level |-> 1,
                       content |-> <<"T", "i", "t", "l", "e">>]>>

C5_Witness ==
    /\ Done
    /\ IsHeadingLine(input, 2, 1)
    /\ Children[1].level = 2

\* no line after line k (0-based) closes a fence
Unclosed(k) == \A j \in (k + 1)..(Len(lines) - 1) : ~StartsWith(Trim(lines[j + 1]), Ticks)

\* C6: a fence that no later line closes gives one code block whose content
\* is every later line up to the end of the input, and no block follows it.
C6_UnclosedFence ==
    Done =>
        \A e \in 1..Len(elements) :
            elements[e].type = "code_block" /\ Unclosed(origin[e].from) =>
                /\ e = Len(elements)
                /\ elements[e].content =
                       Join(Slice(lines, origin[e].from + 2, Len(lines)), NL)
                /\ \A d \in 1..(e - 1) : origin[d].from # origin[e].from

\* an unclosed fence followed by a blank line and by a line that would
\* otherwise be a heading
C6_Witness ==
    /\ Done
    /\ \E e \in 1..Len(elements) :
           /\ elements[e].type = "code_block" /\ Unclosed(origin[e].from)
           /\ \E j, k \in (origin[e].from + 1)..(Len(lines) - 1) :
                  Trim(lines[j + 1]) = <<>> /\ HeaderLevel(Trim(lines[k + 1])) # 0

\* the words countWords counts
Words(text) == IF text = <<>> THEN <<>> ELSE SplitRuns(text, Space)

\* C7, as claimed: the word count of the example is 5.
C7_FiveWords ==
    Done /\ input = ExWordCount => result.metadata.word_count = 5

\* C7, amended: the word count of the example is 6; the inline code is
\* replaced by a space, which leaves the final "." as a word of its own.
C7_SixWords ==
    Done /\ input = ExWordCount =>
        /\ result.metadata.word_count = 6
        /\ Words(WordText(markdown)) =
               << <<"H", "e", "l", "l", "o">>, <<"w", "o", "r", "l", "d", ",">>,
                  <<"s", "e", "e">>, <<"h", "e", "r", "e">>, <<"a", "n", "d">>,
                  <<".">> >>

C7_Witness == Done /\ input = ExWordCount /\ result.metadata.word_count > 0

\* a line after the first that consists solely of "---", the first being "---"
HasClosingLine(s) ==
    /\ SplitChar(s, "\n")[1] = Dashes
    /\ \E k \in 2..Len(SplitChar(s, "\n")) : SplitChar(s, "\n")[k] = Dashes

\* the text after the first closing line
AfterClosingLine(s) ==
    LET ls == SplitChar(s, "\n")
        k  == Min({j \in 2..Len(ls) : ls[j] = Dashes})
    IN  Join(Slice(ls, k + 1, Len(ls)), NL)

\* C8: frontmatter is extracted only when the text starts with a "---" line
\* and a later line consists solely of "---", and it ends at that line.
C8_ClosingLineIsExact ==
    pc # "start" /\ fmMatch.found =>
        /\ HasClosingLine(input)
        /\ markdown = TrimStart(AfterClosingLine(input))

\* C9: a text that starts with "---" and has no closing line has no
\* frontmatter: tags and dates keep their defaults and the whole text is the body.
C9_NoClosingNoFrontmatter ==
    pc = "scan" /\ StartsWith(input, Dashes) /\ ~HasClosingLine(input) =>
        /\ ~fmMatch.found
        /\ tags = <<>> /\ createdAt = Now /\ updatedAt = Now
        /\ markdown = input

\* C10: the frontmatter example gives the tags a and b, the created date of
\* the frontmatter and one heading of level 1 and text "Hi".
C10_FrontmatterExample ==
    Done /\ input = ExFrontmatter =>
        /\ result.metadata.tags = << <<"a">>, <<"b">> >>
        /\ result.metadata.created_at # Now
        /\ result.metadata.created_at =
               <<"2", "0", "2", "4", "-", "0", "1", "-", "0", "1", "T",
                 "0", "0", ":", "0", "0", ":", "0", "0", ".", "0", "0", "0", "Z">>
        /\ Children = <<[type |-> "heading", level |-> 1, content |-> <<"H", "i">>]>>

C10_Witness == Done /\ input = ExFrontmatter /\ fmMatch.found

NoDuplicates(xs) == \A a, b \in 1..Len(xs) : xs[a] = xs[b] => a = b

FirstAt(xs, x) == Min({k \in 1..Len(xs) : xs[k] = x})

\* out holds the entries of seen, each once, in the order of their first
\* occurrence in seen
FirstSeenOrder(out, seen) ==
    /\ \A k \in 1..Len(seen) : \E a \in 1..Len(out) : out[a] = seen[k]
    /\ \A a \in 1..Len(out) : \E k \in 1..Len(seen) : seen[k] = out[a]
    /\ \A a, b \in 1..Len(out) :
           a < b => FirstAt(seen, out[a]) < FirstAt(seen, out[b])

\* C11: metadata.tags and metadata.wikilinks hold no entry twice (compared
\* case-sensitively); the entries are in first-seen order, the tags of the
\* frontmatter before the hashtags of the body.
C11_NoDuplicates ==
    /\ Done =>
         /\ NoDuplicates(result.metadata.tags)
         /\ NoDuplicates(result.metadata.wikilinks)
         /\ FirstSeenOrder(result.metadata.tags,
                           Frontmatter(input).tags \o ScanTags(markdown, 1))
         /\ FirstSeenOrder(result.metadata.wikilinks, ScanWikilinks(markdown, 1))
    /\ Done /\ input = ExDuplicates =>
         /\ result.metadata.tags = << <<"b">>, <<"a">>, <<"B">> >>
         /\ result.metadata.wikilinks = << <<"W">>, <<"w">> >>

\* a tag of the frontmatter is repeated in the body, a hashtag and a wikilink
\* are repeated, and two entries differ only by their letter case
C11_Witness ==
    /\ Done /\ input = ExDuplicates
    /\ Len(Frontmatter(input).tags \o ScanTags(markdown, 1)) = 6
    /\ Len(ScanWikilinks(markdown, 1)) = 3
    /\ Len(result.metadata.tags) = 3

\* a line of a marker "-", "*" or "+", one space and a text without
\* whitespace at its ends
IsBulletLine(line) ==
    /\ Len(line) >= 3
    /\ line[1] \in {"-", "*", "+"}
    /\ line[2] = " "
    /\ line[3] \notin Space /\ line[Len(line)] \notin Space
    /\ \A k \in 1..Len(line) : line[k] \notin {"\n", "\r"}

InputLines == SplitChar(input, "\n")

\* C12: a run of consecutive unordered list lines that mixes the markers
\* "-", "*" and "+" gives a single unordered list with every item of the
\* run, in order; the marker is not kept.
C12_MixedMarkers ==
    /\ Done /\ (\A k \in 1..Len(InputLines) : IsBulletLine(InputLines[k])) =>
         Children =
           <<[type |-> "list", ordered |-> FALSE,
              items |-> [k \in 1..Len(InputLines) |->
                           [type |-> "list_item",
                            content |-> Slice(InputLines[k], 3, Len(InputLines[k]))]]]>>
    /\ Done /\ input = ExMixedMarkers =>
         Children =
           <<[type |-> "list", ordered |-> FALSE,
              items |-> <<[type |-> "list_item", content |-> <<"a">>],
                          [type |-> "list_item", content |-> <<"b">>],
                          [type |-> "list_item", content |-> <<"c">>]>>]>>

\* a list of three items, each of another marker
C12_Witness ==
    /\ Done
    /\ Len(InputLines) = 3
    /\ \A k \in 1..3 : IsBulletLine(InputLines[k])
    /\ {InputLines[k][1] : k \in 1..3} = {"-", "*", "+"}
    /\ Len(Children) = 1 /\ Len(Children[1].items) = 3

\* the non-blank lines, trimmed, that the pass of block e has consumed
ItemLines(e) ==
    SelectSeq([k \in 1..(origin[e].to - origin[e].from) |-> Trim(lines[origin[e].from + k])],
              LAMBDA l : l # <<>>)

ItemOfKind(line, ordered) == IF ordered THEN OrderedItem(line) ELSE UnorderedItem(line)

\* C13: a list never mixes ordered and unordered items: its ordered flag is
\* that of the first line of its run, every item comes from a line of that
\* kind and no line of the run is lost; where a line of the other kind
\* directly follows the run, the next block is a list of the other kind that
\* starts at this line.
C13_NoMixedList ==
    /\ Done =>
         \A e \in 1..Len(elements) :
             elements[e].type = "list" =>
                 /\ elements[e].ordered = (OrderedItem(Trim(lines[origin[e].from + 1])) # <<>>)
                 /\ \A k \in 1..Len(ItemLines(e)) :
                        ItemOfKind(ItemLines(e)[k], elements[e].ordered) # <<>>
                 /\ elements[e].items =
                        [k \in 1..Len(ItemLines(e)) |->
                            [type |-> "list_item",
                             content |-> ItemOfKind(ItemLines(e)[k], elements[e].ordered)]]
                 /\ origin[e].to < Len(lines)
                    /\ ItemOfKind(Trim(lines[origin[e].to + 1]), ~elements[e].ordered) # <<>> =>
                        /\ e < Len(elements)
                        /\ elements[e + 1].type = "list"
                        /\ elements[e + 1].ordered = ~elements[e].ordered
                        /\ origin[e + 1].from = origin[e].to
    /\ Done /\ input = LnDash \o NL \o LnNumber =>
         Children =
           <<[type |-> "list", ordered |-> FALSE,
              items |-> <<[type |-> "list_item", content |-> <<"x">>]>>],
             [type |-> "list", ordered |-> TRUE,
              items |-> <<[type |-> "list_item", content |-> <<"z">>]>>]>>

\* an ordered item, directly followed by an unordered item, directly followed
\* by an ordered item: three lists
C13_Witness ==
    /\ Done
    /\ Len(elements) = 3
    /\ \A e \in 1..3 : elements[e].type = "list" /\ origin[e] = [from |-> e - 1, to |-> e]
    /\ elements[1].ordered /\ ~elements[2].ordered /\ elements[3].ordered

\* C16: two conversions of the same markdown give the same document tree,
\* the same stats.elements, the same word_count and the same lists of tags
\* and wikilinks; only the timestamps defaulted from the clock (and
\* processTime) may differ.
C16_SameResultTwice ==
    Done /\ first # NoResult =>
        /\ result.json = first.json
        /\ result.stats.elements = first.stats.elements
        /\ result.metadata.word_count = first.metadata.word_count
        /\ result.metadata.tags = first.metadata.tags
        /\ result.metadata.wikilinks = first.metadata.wikilinks

\* the second call has returned, at a later time than the first, a document
\* of two blocks or more with tags
C16_Witness ==
    /\ Done /\ first # NoResult
    /\ result.metadata.created_at # first.metadata.created_at
    /\ Len(Children) >= 2
    /\ result.metadata.tags # <<>>

\* C17: metadata.reading_time = max(1, ceil(word_count / 200)): it is the
\* least r >= 1 with 200 * r >= word_count; it is 1 for 0 to 200 words and
\* 2 for 201 to 400 words; a document of n words has word_count n.
C17_ReadingTime ==
    Done =>
        /\ result.metadata.word_count = (Len(input) + 1) \div 2
        /\ result.metadata.reading_time >= 1
        /\ 200 * result.metadata.reading_time >= result.metadata.word_count
        /\ result.metadata.reading_time > 1 =>
               200 * (result.metadata.reading_time - 1) < result.metadata.word_count
        /\ result.metadata.word_count \in 0..200 => result.metadata.reading_time = 1
        /\ result.metadata.word_count \in 201..400 => result.metadata.reading_time = 2

\* the first count that takes two minutes
C17_Witness ==
    Done /\ result.metadata.word_count = 201 /\ result.metadata.reading_time = 2

\* C18: a [[...]] of the body gives metadata.wikilinks its target without
\* the "|alias" and the "#section" suffix: [[Target Page|Display]] and
\* [[Target Page#Sec]] give the entry "Target Page".
C18_WikilinkTargetOnly ==
    Done /\ input \in {LnWikiAlias, ExWikiSection} =>
        result.metadata.wikilinks =
            << <<"T", "a", "r", "g", "e", "t", " ", "P", "a", "g", "e">> >>

\* C19: a hashtag or a wikilink that occurs only inside a fenced code block
\* is not in metadata.tags or metadata.wikilinks: every entry comes from the
\* frontmatter or from the body without its fenced code blocks.
C19_NoMetadataFromCode ==
    Done =>
        /\ \A k \in 1..Len(result.metadata.tags) :
               \E t \in Range(Frontmatter(input).tags)
                        \cup Range(ScanTags(ReplaceAll(markdown, "fenced"), 1)) :
                   t = result.metadata.tags[k]
        /\ \A k \in 1..Len(result.metadata.wikilinks) :
               \E w \in Range(ScanWikilinks(ReplaceAll(markdown, "fenced"), 1)) :
                   w = result.metadata.wikilinks[k]

\* C20: updated_at is the date of the frontmatter when the key modified,
\* updated or updated_at has a parseable date.
C20_ModifiedKey ==
    Done /\ input = ExModified =>
        result.metadata.updated_at =
            <<"2", "0", "2", "4", "-", "0", "1", "-", "0", "1", "T",
              "0", "0", ":", "0", "0", ":", "0", "0", ".", "0", "0", "0", "Z">>

(***************************************************************************)
(* The claims about the inline parser of server/routes.ts.                 *)
(***************************************************************************)
Content == result.json.content

\* s is "[[" T "|" D "]]" with the "|" at position p, T and D without "]",
\* "|" and line break
IsAliasLink(s, p) ==
    /\ p >= 3 /\ p <= Len(s) - 2
    /\ s[1] = "[" /\ s[2] = "[" /\ s[p] = "|"
    /\ s[Len(s) - 1] = "]" /\ s[Len(s)] = "]"
    /\ \A k \in 3..(Len(s) - 2) : k # p => s[k] \notin {"]", "|", "\n", "\r"}

\* t without its "#section" suffix
BeforeHash(t) == IF FirstIn(t, 1, {"#"}) = 0 THEN t ELSE Slice(t, 1, FirstIn(t, 1, {"#"}) - 1)

AliasSpan(s, p) ==
    [type |-> "internal_link",
     note |-> Trim(BeforeHash(Slice(s, 3, p - 1))),
     text |-> Trim(Slice(s, p + 1, Len(s) - 2))]

\* the spans of the items of a list
RECURSIVE ItemSpans(_)
ItemSpans(items) ==
    IF items = <<>> THEN <<>>
    ELSE (IF "inline" \in DOMAIN items[1] THEN items[1].inline ELSE <<>>)
           \o ItemSpans(Tail(items))

\* the spans of the paragraphs and list items of the blocks, in order
RECURSIVE BlockSpans(_)
BlockSpans(blocks) ==
    IF blocks = <<>> THEN <<>>
    ELSE (IF blocks[1].type = "list" THEN ItemSpans(blocks[1].items)
          ELSE IF blocks[1].type = "paragraph" /\ "inline" \in DOMAIN blocks[1]
          THEN blocks[1].inline
          ELSE <<>>)
           \o BlockSpans(Tail(blocks))

InternalNotes(spans) ==
    LET links == SelectSeq(spans, LAMBDA e : e.type = "internal_link")
    IN  [k \in 1..Len(links) |-> links[k].note]

\* C14: in the inline parser of the route, a wikilink [[T|D]] in a paragraph
\* or a list item gives an internal-link span of note T (trimmed, without
\* its "#section" suffix) and text D, and metadata.internal_links gets
\* exactly that T; metadata.internal_links holds the notes of the
\* internal-link spans of the content, each once, in order;
\* [[Target Page|Display]] gives note "Target Page" and text "Display".
C14_WikilinkAlias ==
    /\ Done =>
         \A p \in 1..Len(input) :
             /\ IsAliasLink(input, p) =>
                  /\ Content = <<[type |-> "paragraph", inline |-> <<AliasSpan(input, p)>>]>>
                  /\ result.json.metadata.internal_links = <<AliasSpan(input, p).note>>
             /\ Len(input) > 2 /\ input[1] = "-" /\ input[2] = " "
                /\ IsAliasLink(Slice(input, 3, Len(input)), p) =>
                  /\ Content =
                       <<[type |-> "list", ordered |-> FALSE,
                          items |-> <<[inline |->
                                         <<AliasSpan(Slice(input, 3, Len(input)), p)>>]>>]>>
                  /\ result.json.metadata.internal_links =
                       <<AliasSpan(Slice(input, 3, Len(input)), p).note>>
    /\ Done =>
         /\ NoDuplicates(result.json.metadata.internal_links)
         /\ FirstSeenOrder(result.json.metadata.internal_links,
                           InternalNotes(BlockSpans(Content)))
    /\ Done /\ input = LnWikiAlias =>
         /\ Content =
              <<[type |-> "paragraph",
                 inline |-> <<[type |-> "internal_link",
                               note |-> <<"T", "a", "r", "g", "e", "t", " ", "P", "a", "g", "e">>,
                               text |-> <<"D", "i", "s", "p", "l", "a", "y">>]>>]>>
         /\ result.json.metadata.internal_links =
              << <<"T", "a", "r", "g", "e", "t", " ", "P", "a", "g", "e">> >>

\* a paragraph whose wikilink has a section suffix and an alias, followed by
\* a list item whose wikilink has spaces around target and alias
C14_Witness ==
    /\ Done
    /\ input = LnWikiSection \o NL \o LnWikiItem
    /\ result.json.metadata.internal_links = << <<"T">> >>
    /\ Len(Content) = 2 /\ Content[2].type = "list"

HttpPrefix == <<"h", "t", "t", "p", ":", "/", "/">>
HttpsPrefix == <<"h", "t", "t", "p", "s", ":", "/", "/">>

\* C15: metadata.external_links holds the url of a [text](url) link only
\* when the url begins with http:// or https://.
C15_ExternalLinksHttpOnly ==
    Done =>
        \A k \in 1..Len(result.json.metadata.external_links) :
            \/ StartsWith(result.json.metadata.external_links[k], HttpPrefix)
            \/ StartsWith(result.json.metadata.external_links[k], HttpsPrefix)

(***************************************************************************)
(* The block loop of shared/parser.ts, block by block.  origin[k].from is  *)
(* the cursor at which the pass that pushed elements[k] began.             *)
(***************************************************************************)
\* the trimmed line at which the pass of block k began
LineOf(k) == Trim(lines[origin[k].from + 1])

\* the number of # characters at the start of a line
LeadingHashes(line) == RunEnd(line, 1, {"#"}) - 1

\* C21: every heading block has a level between 1 and 6, the number of #
\* characters at the start of its line; hence a line that begins with 7 or
\* more # never produces a heading block.
C21_HeadingLevel ==
    \A k \in 1..Len(elements) :
        elements[k].type = "heading" =>
            /\ elements[k].level \in 1..6
            /\ elements[k].level = LeadingHashes(LineOf(k))

\* a heading of level 6 followed by two lines of seven # that are paragraphs
C21_Witness ==
    /\ Done
    /\ input = ExHeadingLevels
    /\ Len(elements) = 3
    /\ elements[1].type = "heading" /\ elements[1].level = 6
    /\ LeadingHashes(LineOf(2)) = 7 /\ elements[2].type = "paragraph"
    /\ LeadingHashes(LineOf(3)) = 7 /\ elements[3].type = "paragraph"

\* the first line after line k (0-based) whose trimmed text starts with three
\* backticks, lines.length when there is none
ClosingLine(k) ==
    Min({j \in (k + 1)..(Len(lines) - 1) : StartsWith(Trim(lines[j + 1]), Ticks)}
        \cup {Len(lines)})

\* C22: the content of a code block is the original, untrimmed lines between
\* its opening fence and the first later line whose trimmed text starts with
\* three backticks, joined by newlines; no pass of the loop begins at one of
\* those lines or at the closing line, so none of them produces a block.
C22_FenceVerbatim ==
    Done =>
        \A e \in 1..Len(elements) :
            elements[e].type = "code_block" =>
                /\ elements[e].content =
                       Join([k \in 1..(ClosingLine(origin[e].from) - origin[e].from - 1) |->
                                 lines[origin[e].from + 1 + k]], NL)
                /\ \A d \in 1..Len(elements) :
                       origin[d].from \notin
                           (origin[e].from + 1)..ClosingLine(origin[e].from)

\* a closed fence around lines that read as a heading, a list item, a quote,
\* a rule, a blank line and a paragraph, some with outer whitespace
C22_Witness ==
    /\ Done
    /\ input = ExFenceVerbatim
    /\ Len(elements) = 2
    /\ elements[1] =
         [type |-> "code_block", language |-> <<"j", "s">>,
          content |-> <<" ", " ", "#", " ", "h", " ", " ", "\n", "-", " ", "x", "\n",
                        ">", " ", "q", "\n", "-", "-", "-", "\n", "\n", " ", "p", " ">>]
    /\ elements[2] = [type |-> "paragraph", content |-> <<"a", "f", "t", "e", "r">>]

\* line j (0-based) lies inside a code fence: after the opening line of a
\* code block and before the cursor its pass left
InFence(j) ==
    \E e \in 1..Len(elements) :
        elements[e].type = "code_block" /\ origin[e].from < j /\ j < origin[e].to

IsQuoteLine(j) == StartsWith(Trim(lines[j + 1]), <<">">>)

\* the blocks whose pass began at line j (0-based)
BlocksAt(j) == {d \in 1..Len(elements) : origin[d].from = j}

\* C23: each line that starts with > and is not inside a code fence produces
\* a blockquote block of its own: the pass at that line pushes one blockquote
\* and moves the cursor by one line, so k consecutive > lines give k
\* blockquotes in the order of the lines.
C23_QuotePerLine ==
    Done =>
        \A j \in 0..(Len(lines) - 1) :
            IsQuoteLine(j) /\ ~InFence(j) =>
                \E d \in 1..Len(elements) :
                    /\ BlocksAt(j) = {d}
                    /\ elements[d].type = "blockquote"
                    /\ origin[d].to = j + 1
                    /\ j > 0 /\ IsQuoteLine(j - 1) /\ ~InFence(j - 1) =>
                           BlocksAt(j - 1) = {d - 1}

\* three consecutive > lines, three blockquotes
C23_Witness ==
    /\ Done
    /\ Len(lines) = 3 /\ \A j \in 0..2 : IsQuoteLine(j)
    /\ Len(elements) = 3 /\ \A d \in 1..3 : elements[d].type = "blockquote"

\* the text after the > marker and at most one following space
AfterQuoteMarker(line) ==
    IF Len(line) >= 2 /\ line[2] = " " THEN Slice(line, 3, Len(line))
    ELSE Slice(line, 2, Len(line))

\* C24: the content of a blockquote block is the remainder of its line after
\* the > marker and at most one following space; further leading whitespace
\* of the quoted text is kept.
C24_QuoteKeepsIndent ==
    Done =>
        \A e \in 1..Len(elements) :
            elements[e].type = "blockquote" =>
                elements[e].content = AfterQuoteMarker(LineOf(e))

\* the first line from f on (0-based) that is neither blank nor an item of
\* the family, lines.length when there is none
RunStop(f, ordered) ==
    Min({j \in f..(Len(lines) - 1) :
            Trim(lines[j + 1]) # <<>> /\ ItemOfKind(Trim(lines[j + 1]), ordered) = <<>>}
        \cup {Len(lines)})

\* C25: a list run skips blank lines and ends only at the first non-blank
\* line that does not match the family's marker, or at the end of the input;
\* every item line before that point is an item of the one list block.
C25_BlankLinesInList ==
    Done =>
        \A e \in 1..Len(elements) :
            elements[e].type = "list" =>
                /\ origin[e].to = RunStop(origin[e].from, elements[e].ordered)
                /\ Len(elements[e].items) = Len(ItemLines(e))
                /\ \A k \in 1..Len(ItemLines(e)) :
                       elements[e].items[k].content =
                           ItemOfKind(ItemLines(e)[k], elements[e].ordered)

\* two items two blank lines apart in one list, a heading that ends the
\* run, and a list that runs over blank lines to the end of the input
C25_Witness ==
    /\ Done
    /\ input = ExListBlanks
    /\ Len(elements) = 3
    /\ elements[1] = [type |-> "list", ordered |-> FALSE,
                      items |-> <<[type |-> "list_item", content |-> <<"a">>],
                                  [type |-> "list_item", content |-> <<"b">>]>>]
    /\ elements[2].type = "heading"
    /\ elements[3].type = "list" /\ Len(elements[3].items) = 2
    /\ origin[3].to = Len(lines)

(***************************************************************************)
(* parseInlineElements of shared/parser.ts, span by span.                  *)
(***************************************************************************)
\* the matches array after the sort of line 61
SortedMatches(text) == SortByStart(InlineMatches(text))

\* lines 62-81, with each pushed span the source range it stands for: the
\* range of the gap for a text span, the range of the match for a typed
\* span; end is the position after the range
SpanRanges(text, ms) ==
    LET F[k \in 0..Len(ms)] ==
            IF k = 0 THEN [ranges |-> <<>>, last |-> 1]
            ELSE LET prev == F[k - 1]
                 IN  [ranges |->
                          (IF ms[k].start > prev.last
                              /\ Trim(Slice(text, prev.last, ms[k].start - 1)) # <<>>
                           THEN Append(prev.ranges, [start |-> prev.last, end |-> ms[k].start])
                           ELSE prev.ranges)
                          \o <<[start |-> ms[k].start, end |-> ms[k].end]>>,
                      last |-> ms[k].end]
        w == F[Len(ms)]
    IN  IF w.last <= Len(text) /\ Trim(Slice(text, w.last, Len(text))) # <<>>
        THEN Append(w.ranges, [start |-> w.last, end |-> Len(text) + 1])
        ELSE w.ranges

\* each range starts at or after the end of the range before it
InSourceOrder(ranges) ==
    \A k \in 2..Len(ranges) : ranges[k].start >= ranges[k - 1].end

\* the spans of paragraph block e
ParagraphSpans(e) ==
    IF "children" \in DOMAIN elements[e] THEN elements[e].children
    ELSE <<TextSpan(elements[e].content)>>

\* C26: the spans parseInlineElements returns for a line do not overlap and
\* are in source order: each span's source range starts at or after the end
\* of the range of the span before it.
C26_SpansInSourceOrder ==
    Done =>
        \A e \in 1..Len(elements) :
            elements[e].type = "paragraph" =>
                InSourceOrder(SpanRanges(LineOf(e), SortedMatches(LineOf(e))))

\* the non-empty stretches of text outside the matches ms, sorted by start
GapsOf(text, ms) ==
    (IF ms = <<>> THEN {text}
     ELSE {Slice(text, 1, ms[1].start - 1), Slice(text, ms[Len(ms)].end, Len(text))}
          \cup {Slice(text, ms[k].end, ms[k + 1].start - 1) : k \in 1..(Len(ms) - 1)})
    \ {<<>>}

HasTextSpan(spans, t) == \E c \in 1..Len(spans) : spans[c] = TextSpan(t)

\* C27: every non-empty stretch of a line before the first match, between
\* two consecutive matches or after the last match is the content of a text
\* span of the result, a stretch of whitespace included.
C27_TextForEveryGap ==
    Done =>
        \A e \in 1..Len(elements) :
            elements[e].type = "paragraph" =>
                \A g \in GapsOf(LineOf(e), SortedMatches(LineOf(e))) :
                    HasTextSpan(ParagraphSpans(e), g)

(***************************************************************************)
(* countWords and the code blocks of the block loop.                       *)
(***************************************************************************)
\* line j (0-based) is part of the content of a code block
IsCodeContent(j) ==
    \E e \in 1..Len(elements) :
        /\ elements[e].type = "code_block"
        /\ origin[e].from < j /\ j < ClosingLine(origin[e].from)

LinesOutsideCode(ls) == [k \in 1..Len(ls) |-> ls[k].text]

\* C28: the text the block loop captures as the content of a code block
\* does not contribute to metadata.word_count: the count is that of the body
\* with the content lines of every code block taken out, for a closed fence
\* and for a fence that runs to the end of the input.
C28_CodeNotCounted ==
    Done =>
        result.metadata.word_count =
            CountWords(Join(LinesOutsideCode(
                SelectSeq([j \in 1..Len(lines) |-> [at |-> j - 1, text |-> lines[j]]],
                          LAMBDA l : ~IsCodeContent(l.at))), NL))

(***************************************************************************)
(* The claim about applyAllAutofixes of unnamed/part_002.                  *)
(***************************************************************************)
\* C29: the fixes are applied from the highest startIndex to the lowest, and
\* each fix, at the moment it is applied, finds its oldText at
\* [startIndex, endIndex) of the text, also when two fixes are on one line.
C29_FixesFindOldText ==
    /\ \A k \in 2..Len(sortedErrors) :
           sortedErrors[k - 1].autofix.startIndex >= sortedErrors[k].autofix.startIndex
    /\ \A k \in 1..Len(found) : found[k] = sortedErrors[k].autofix.oldText

(***************************************************************************)
(* The block loop of shared/parser.ts as a whole.                          *)
(***************************************************************************)
\* the lines (0-based) that the pass of block d has consumed
LinesOfBlock(d) == {j \in 0..(Len(lines) - 1) : origin[d].from <= j /\ j < origin[d].to}

\* the non-blank lines among them
NonBlankLinesOf(d) == {j \in LinesOfBlock(d) : Trim(lines[j + 1]) # <<>>}

\* what the lines of block d contribute to it
ContributesOnce(d) ==
    CASE elements[d].type = "list" ->
             Len(elements[d].items) = Cardinality(NonBlankLinesOf(d))
      [] elements[d].type = "code_block" ->
             /\ IsFence(lines[origin[d].from + 1])
             /\ \A j \in LinesOfBlock(d) :
                    \/ j = origin[d].from
                    \/ j = ClosingLine(origin[d].from)
                    \/ IsCodeContent(j)
             /\ elements[d].content =
                    Join([k \in 1..(ClosingLine(origin[d].from) - origin[d].from - 1) |->
                              lines[origin[d].from + 1 + k]], NL)
      [] OTHER -> LinesOfBlock(d) = {origin[d].from}

\* C30: the block loop consumes every line of the body once: each non-blank
\* line belongs to the pass of exactly one block, as its heading, blockquote,
\* rule or paragraph line, as one item of its list, or as a fence line or a
\* content line of its code block; the blocks are in the order of their
\* lines.
C30_EveryLineOnce ==
    Done =>
        /\ \A j \in 0..(Len(lines) - 1) :
               Trim(lines[j + 1]) # <<>> =>
                   Cardinality({d \in 1..Len(elements) : j \in LinesOfBlock(d)}) = 1
        /\ \A d \in 1..Len(elements) : ContributesOnce(d)
        /\ \A d \in 2..Len(elements) : origin[d - 1].to <= origin[d].from

\* a list item, a blank line that the list run consumes, then a heading
C30_Witness ==
    /\ Done
    /\ Len(lines) = 3 /\ Trim(lines[2]) = <<>>
    /\ Len(elements) = 2
    /\ elements[1].type = "list" /\ Len(elements[1].items) = 1
    /\ elements[2].type = "heading"

====
